---------------------------- MODULE Spec2Model ----------------------------
(***************************************************************************)
(* Model of the concurrency / lifecycle core of WinUI3Native.cpp:          *)
(*   - the event ring (EnqueueEvent, winui_poll_events), at the            *)
(*     granularity of its atomic loads, stores and slot copies;            *)
(*   - the UI thread supervisor (StartAppThread, InitUI, ShutdownUI, the   *)
(*     watchdog, the run loop and the work marshalled onto it).            *)
(***************************************************************************)
EXTENDS Integers, Sequences, FiniteSets, TLC

(***************************************************************************)
(* Bounds.  The source's ring has 256 slots (kEventRingSize, line 397);    *)
(* the ring code is parametric in that size, and the model runs it with a  *)
(* small number of slots so that wrap-around and overflow are reached.     *)
(***************************************************************************)
kEventRingSize == 4
MaxExtra == 2
MaxEnqueue == kEventRingSize + MaxExtra
MaxPolls == 2
\* Lifecycle bounds: UI threads ever started, API calls ever made, polls of
\* the watchdog before it gives up (2000 ms / 100 ms in the source, line
\* 1144-1148), Closed signals, failing window-creation attempts.
MaxThreads == 3
MaxCalls == 2
MaxCoreCalls == 4
WatchdogPolls == 2
MaxClosed == 1
MaxCreateFailures == 1

\* API calls ever made in SpecWindow, SpecRetry, SpecEvents and SpecCommands,
\* and input events the window's handlers enqueue in SpecEvents.
MaxWinCalls == 3
MaxRetryCalls == 2
MaxEventCalls == 1
MaxCommandCalls == 3
MaxInputs == 4

\* Controls ever created by create_stack_panel, create_grid, create_text_input.
MaxControls == 2

\* Calls of exported functions in a run of SpecControls.
MaxControlCalls == 3

\* Calls of exported functions in a run of SpecTree.
MaxTreeCalls == 5

\* Calls of exported functions in a run of SpecRelease.
MaxReleaseCalls == 4

\* Calls of exported functions in a run of SpecWait.
MaxWaitCalls == 3

\* Calls of exported functions in a run of SpecReady.
MaxReadyCalls == 4

\* Calls of exported functions, and presses and releases of mouse buttons,
\* in a run of SpecMouse.
MaxMouseCalls == 3
MaxMouseEvents == 4

\* Calls of exported functions in a run of SpecResize.
MaxResizeCalls == 3

\* Calls of exported functions, and input events, in a run of SpecInput.
MaxInputCalls == 3

\* Calls of exported functions in a run of SpecText.
MaxTextCalls == 4

\* Calls of exported functions, and Closed signals, in a run of SpecClosed.
MaxClosedCalls == 3
MaxClosedSignals == 2
MaxInputEvents == 2

Slots == 0 .. (kEventRingSize - 1)

VARIABLES
    \* ---- event ring (lines 397-401) ----
    g_eventRing, g_eventHead, g_eventTail, g_eventOverflow,
    \* ---- EnqueueEvent in progress on the UI thread (locals, lines 405-407) ----
    epc, e_ev, e_head, e_tail,
    \* ---- winui_poll_events in progress on the poller (locals, lines 1945-1963) ----
    qpc, q_max, q_count, q_tail, q_head, q_out,
    \* ---- results of the last completed poll, and histories ----
    lastOut, lastMore, lastMax, lastOp, polls,
    enqLog, delivered, batch, batchClean, batchOvf, lastBatch, lastClean, lastOvf

ringVars == <<g_eventRing, g_eventHead, g_eventTail, g_eventOverflow>>
enqVars == <<epc, e_ev, e_head, e_tail>>
pollVars == <<qpc, q_max, q_count, q_tail, q_head, q_out>>
histVars == <<lastOut, lastMore, lastMax, lastOp, polls, enqLog, delivered,
              batch, batchClean, batchOvf, lastBatch, lastClean, lastOvf>>
ringSide == <<ringVars, enqVars, pollVars, histVars>>

VARIABLES
    \* ---- process: "running", "exited" (_exit(0), line 1152) or
    \*      "terminated" (std::terminate) ----
    proc,
    \* ---- diagnostics / lifecycle globals (lines 82-89, 382, 441-449) ----
    g_lastHRESULT, g_shutdownRequested, g_closeCallback,
    g_uiThread, g_appThreadStarted, g_appReady, g_dispatcherQueue,
    g_windowCreationScheduled, g_window, g_windowReady,
    \* ---- function-local statics: ShutdownUI's finished (1023),
    \*      watchdogStarted (1139), closeCbFired (1393); the Closed handler's
    \*      launched (808); whether the Closed handler is attached ----
    finished, watchdogStarted, closeCbFired, launched, closedHandler,
    \* ---- the UI threads ever started, their run-loop queues, the detached
    \*      timers of ScheduleWindowCreation, the watchdog thread ----
    uiState, queue, nextTid, timers, wd, wdWaited,
    \* ---- the calling threads: position and locals ----
    pc, firstCall, joinTarget,
    \* ---- histories ----
    calls, callLimit, lastCall, callThread, callSeg, initResult, initSeen, joined,
    teardownRuns, closeCbInvocations, cbAtRequest, bootFailed, windowBy,
    closedEvents, createFailures,
    \* ---- the window: the pending slots of create_window and
    \*      set_window_background_color (lines 93-97), the client-size bounds
    \*      of set_window_min_max (lines 453-456, stored by the same four
    \*      statements and modelled together as g_minClientW), and the title,
    \*      client size and background of the window itself ----
    g_pendingWindowTitle, g_pendingInitialWidth, g_pendingInitialHeight,
    g_pendingBGSet, g_minClientW, winTitle, winW, winH, winBG,
    \* ---- histories of the window operations ----
    createLimit, attemptLog, cwCall, earlyTitle,
    \* ---- the value-returning commands: the state of each caller's promise
    \*      (lines 1819-1821, 1992, 2031) and the handle it got ----
    promise, cmdResult,
    \* ---- the Control Registry g_controls (line 369) as the set of its
    \*      handles, the kind of element behind each handle, the parent each
    \*      element is attached to, the number of controls created ----
    g_controls, ctlKind, parentOf, nextCtl,
    \* ---- the resize and input callbacks (lines 380-381) and the button of
    \*      the last press (line 383) ----
    g_resizeCallback, g_inputCallback, g_lastPointerButton,
    \* ---- the pointer: the buttons that are down, and for every release
    \*      the button that went up and the button the handler reported ----
    held, upLog,
    \* ---- histories: handles given to release_control, the callback
    \*      invocations and the steps of the teardown closure in order, the
    \*      value returned by each caller's wait_for_window_ready ----
    released, cbLog, teardownLog, waitRet,
    \* ---- history: the thread g_uiThread held when the watchdog was
    \*      started (-1 before that) ----
    wdArmedFor

globalVars == <<g_lastHRESULT, g_shutdownRequested, g_closeCallback,
                g_uiThread, g_appThreadStarted, g_appReady, g_dispatcherQueue,
                g_windowCreationScheduled, g_window, g_windowReady>>
staticVars == <<finished, watchdogStarted, closeCbFired, launched, closedHandler>>
threadVars == <<uiState, queue, nextTid, timers, wd, wdWaited>>
callerVars == <<pc, firstCall, joinTarget>>
ghostVars == <<calls, callLimit, lastCall, callThread, callSeg, initResult, initSeen, joined,
               teardownRuns, closeCbInvocations, cbAtRequest, bootFailed, windowBy,
               closedEvents, createFailures>>
pendingVars == <<g_pendingWindowTitle, g_pendingInitialWidth, g_pendingInitialHeight,
                 g_pendingBGSet>>
windowVars == <<winTitle, winW, winH, winBG>>
winHistVars == <<createLimit, attemptLog, cwCall, earlyTitle>>
cmdVars == <<promise, cmdResult>>
regVars == <<g_controls, ctlKind, parentOf, nextCtl>>
mouseVars == <<held, upLog>>
callbackVars == <<g_resizeCallback, g_inputCallback, g_lastPointerButton,
                  mouseVars>>
ctlHistVars == <<released, cbLog, teardownLog, waitRet, wdArmedFor>>
ctlVars == <<regVars, callbackVars, ctlHistVars>>
winVars == <<pendingVars, g_minClientW, windowVars, winHistVars, cmdVars, ctlVars>>
threadRest == <<uiState, nextTid, timers, wd, wdWaited>>
ghostRest == <<callLimit, lastCall, callThread, callSeg, initResult, initSeen,
               joined, teardownRuns, closeCbInvocations, cbAtRequest, bootFailed,
               windowBy, closedEvents, createFailures>>
windowSide == <<pendingVars, g_minClientW, windowVars, winHistVars>>
lifeVars == <<proc, globalVars, staticVars, threadVars, callerVars, ghostVars, winVars>>

vars == <<ringSide, lifeVars>>

(***************************************************************************)
(* WinUIEventInternal (lines 386-396): the eight fields of an event.       *)
(***************************************************************************)
WinUIEventInternal(kind, code, action, mods, x, y, w, h) ==
    [kind |-> kind, code |-> code, action |-> action, mods |-> mods,
     x |-> x, y |-> y, w |-> w, h |-> h]

ZeroEvent == WinUIEventInternal(0, 0, 0, 0, 0, 0, 0, 0)

\* The events the input handlers enqueue (lines 755-770): a key event
\* {1, vk, action, mods, 0, 0, 0, 0}, key down (action 1) then key up (2).
\* The n-th event carries vk = n, which makes every enqueued event
\* distinguishable from every other.
KeyEvents(n) == { WinUIEventInternal(1, n, 1 + ((n + 1) % 2), 0, 0, 0, 0, 0) }

\* A copy that leaves the action field of the caller's buffer at zero.
CopyOutWithoutAction(src) ==
    [kind |-> src.kind, code |-> src.code, action |-> 0,
     mods |-> src.mods, x |-> src.x, y |-> src.y, w |-> src.w, h |-> src.h]

\* The field-by-field copy of a slot into the caller's buffer (lines 1950-1958).
CopyOut(src) ==
    [kind |-> src.kind, code |-> src.code, action |-> src.action,
     mods |-> src.mods, x |-> src.x, y |-> src.y, w |-> src.w, h |-> src.h]

RingInit ==
    /\ g_eventRing = [i \in Slots |-> ZeroEvent]
    /\ g_eventHead = 0
    /\ g_eventTail = 0
    /\ g_eventOverflow = 0
    /\ epc = "idle" /\ e_ev = ZeroEvent /\ e_head = 0 /\ e_tail = 0
    /\ qpc = "idle" /\ q_max = 0 /\ q_count = 0 /\ q_tail = 0 /\ q_head = 0
    /\ q_out = <<>>
    /\ lastOut = <<>> /\ lastMore = 0 /\ lastMax = 0 /\ lastOp = "none"
    /\ polls = 0
    /\ enqLog = <<>> /\ delivered = <<>>
    /\ batch = <<>> /\ batchClean = TRUE /\ batchOvf = 0
    /\ lastBatch = <<>> /\ lastClean = FALSE /\ lastOvf = 0

(***************************************************************************)
(* EnqueueEvent (lines 403-415), one action per memory access.             *)
(***************************************************************************)
\* line 405: head = g_eventHead.load()
EnqLoadHead(ev) ==
    /\ epc = "idle"
    /\ Len(enqLog) < MaxEnqueue
    /\ e_ev' = ev
    /\ e_head' = g_eventHead
    /\ epc' = "L406"
    /\ enqLog' = Append(enqLog, ev)
    /\ batch' = Append(batch, ev)
    /\ lastOp' = "enq"
    /\ UNCHANGED <<ringVars, e_tail, pollVars, lastOut, lastMore, lastMax, polls,
                   delivered, batchClean, batchOvf, lastBatch, lastClean, lastOvf>>

\* A ring-full test that is off by one slot.
EnqIsFullOneEarly(head, tail) == ((head + 2) % kEventRingSize) = tail

\* The ring-full test of line 408, on the values loaded at lines 405-407.
EnqIsFull(head, tail) == ((head + 1) % kEventRingSize) = tail

\* line 406: tail = g_eventTail.load(); lines 407-408: next, full test
EnqLoadTail ==
    /\ epc = "L406"
    /\ e_tail' = g_eventTail
    /\ epc' = IF EnqIsFull(e_head, g_eventTail) THEN "L410" ELSE "L413"
    /\ UNCHANGED <<ringVars, e_ev, e_head, pollVars, histVars>>

\* The drop of the oldest event without the count of it.
EnqCountOverflowLost ==
    /\ epc = "L410"
    /\ g_eventOverflow' = g_eventOverflow
    /\ epc' = "L411"
    /\ UNCHANGED <<g_eventRing, g_eventHead, g_eventTail, e_ev, e_head, e_tail,
                   pollVars, histVars>>

\* line 410: g_eventOverflow.fetch_add(1)
EnqCountOverflow ==
    /\ epc = "L410"
    /\ g_eventOverflow' = g_eventOverflow + 1
    /\ epc' = "L411"
    /\ UNCHANGED <<g_eventRing, g_eventHead, g_eventTail, e_ev, e_head, e_tail,
                   pollVars, histVars>>

\* line 411: g_eventTail.store((tail + 1) % kEventRingSize)
EnqDropOldest ==
    /\ epc = "L411"
    /\ g_eventTail' = (e_tail + 1) % kEventRingSize
    /\ epc' = "L413"
    /\ UNCHANGED <<g_eventRing, g_eventHead, g_eventOverflow, e_ev, e_head, e_tail,
                   pollVars, histVars>>

\* line 413: g_eventRing[head] = ev
EnqWriteSlot ==
    /\ epc = "L413"
    /\ g_eventRing' = [g_eventRing EXCEPT ![e_head] = e_ev]
    /\ epc' = "L414"
    /\ UNCHANGED <<g_eventHead, g_eventTail, g_eventOverflow, e_ev, e_head, e_tail,
                   pollVars, histVars>>

\* line 414: g_eventHead.store(next)
EnqStoreHead ==
    /\ epc = "L414"
    /\ g_eventHead' = (e_head + 1) % kEventRingSize
    /\ epc' = "idle"
    /\ UNCHANGED <<g_eventRing, g_eventTail, g_eventOverflow, e_ev, e_head, e_tail,
                   pollVars, histVars>>

(***************************************************************************)
(* winui_poll_events (lines 1937-1967), one action per memory access.      *)
(* The buffer is always non-null in the model; max ranges over values      *)
(* below, at and above the ring size, and the rejected max <= 0.           *)
(***************************************************************************)
PollMaxes == 0 .. kEventRingSize

\* lines 1939-1944: max <= 0 -> *more = 0, return 0
PollRejected(max) ==
    /\ qpc = "idle"
    /\ max <= 0
    /\ polls < MaxPolls
    /\ polls' = polls + 1
    /\ lastOut' = <<>>
    /\ lastMore' = 0
    /\ lastMax' = max
    /\ lastOp' = "rejected"
    /\ UNCHANGED <<ringVars, enqVars, pollVars, enqLog, delivered,
                   batch, batchClean, batchOvf, lastBatch, lastClean, lastOvf>>

\* lines 1945-1946: count = 0; tail = g_eventTail.load()
PollLoadTail(max) ==
    /\ qpc = "idle"
    /\ max > 0
    /\ polls < MaxPolls
    /\ polls' = polls + 1
    /\ q_max' = max
    /\ q_count' = 0
    /\ q_out' = <<>>
    /\ q_tail' = g_eventTail
    /\ qpc' = "L1947"
    /\ UNCHANGED <<ringVars, enqVars, q_head, lastOut, lastMore, lastMax, lastOp,
                   enqLog, delivered, batch, batchClean, batchOvf, lastBatch,
                   lastClean, lastOvf>>

\* line 1947: head = g_eventHead.load()
PollLoadHead ==
    /\ qpc = "L1947"
    /\ q_head' = g_eventHead
    /\ qpc' = "L1948"
    /\ UNCHANGED <<ringVars, enqVars, q_max, q_count, q_tail, q_out, histVars>>

\* A loop condition that lets one iteration too many through.
PollContinuesOneMore(tail, head, count, max) == tail /= head /\ count <= max

\* The loop condition of line 1948.
PollContinues(tail, head, count, max) == tail /= head /\ count < max

\* lines 1948-1961: one iteration: copy the slot at tail, ++count, advance tail
PollCopySlot ==
    /\ qpc = "L1948"
    /\ PollContinues(q_tail, q_head, q_count, q_max)
    /\ q_out' = Append(q_out, CopyOut(g_eventRing[q_tail]))
    /\ q_count' = q_count + 1
    /\ q_tail' = (q_tail + 1) % kEventRingSize
    /\ UNCHANGED <<ringVars, enqVars, qpc, q_max, q_head, histVars>>

\* line 1962: g_eventTail.store(tail)
PollStoreTail ==
    /\ qpc = "L1948"
    /\ ~PollContinues(q_tail, q_head, q_count, q_max)
    /\ g_eventTail' = q_tail
    /\ qpc' = "L1963"
    /\ UNCHANGED <<g_eventRing, g_eventHead, g_eventOverflow, enqVars,
                   q_max, q_count, q_tail, q_head, q_out, histVars>>

\* lines 1963-1966: newHead = g_eventHead.load(); *more; return count
PollReturn ==
    /\ qpc = "L1963"
    /\ lastMore' = IF q_tail /= g_eventHead THEN 1 ELSE 0
    /\ lastOut' = q_out
    /\ lastMax' = q_max
    /\ lastOp' = "poll"
    /\ delivered' = delivered \o q_out
    /\ lastBatch' = batch
    /\ lastClean' = batchClean
    /\ lastOvf' = g_eventOverflow - batchOvf
    /\ batch' = <<>>
    /\ batchClean' = (g_eventTail = g_eventHead /\ epc = "idle")
    /\ batchOvf' = g_eventOverflow
    /\ qpc' = "idle"
    /\ UNCHANGED <<ringVars, enqVars, q_max, q_count, q_tail, q_head, q_out, enqLog,
                   polls>>

(***************************************************************************)
(* The UI thread supervisor.                                               *)
(*                                                                         *)
(* Callers are the host threads that call the exported functions; Helper   *)
(* is the detached thread the window's Closed handler starts (line 810).   *)
(* UI threads are numbered in the order StartAppThread creates them; 0 is  *)
(* "none" (a std::thread that is not joinable, a null DispatcherQueue).    *)
(***************************************************************************)
Callers == {"c1", "c2"}
Helper == "h"
AllCallers == Callers \cup {Helper}
Threads == 1 .. MaxThreads

\* The record of a caller that has not called wait_for_window_ready: the
\* argument, the timeout waited for and the value returned (-1: none yet).
NoWait == [timeoutMs |-> 0, deadline |-> 0, ret |-> -1]

\* Control handles: 0 is the null handle, WindowHandle the handle of the main
\* window (line 832), the next MaxControls the controls created, and the
\* last one a handle that is never in the registry.
WindowHandle == 1
Handles == 1 .. (MaxControls + 2)
StaleHandle == MaxControls + 2

\* HRESULTs: S_OK and the failures the code records or receives.
FAILED(hr) == hr /= "S_OK"

\* kBootstrapCandidates (lines 132-133): (1 << 16) | 8, ... , (1 << 16) | 5.
kBootstrapCandidates == <<65544, 65543, 65542, 65541>>

\* What MddBootstrapInitialize can answer for one candidate (line 165).
BootstrapAnswers == {"S_OK", "E_BOOTSTRAP"}

\* The loop of TryBootstrapMulti (lines 161-174) from candidate i on: S_OK
\* at the first candidate that succeeds, else the last candidate's failure.
RECURSIVE TryCandidates(_, _, _)
TryCandidates(answers, i, lastHr) ==
    IF i > Len(kBootstrapCandidates)
    THEN lastHr
    ELSE IF ~FAILED(answers[i])
         THEN "S_OK"
         ELSE TryCandidates(answers, i + 1, answers[i])

\* TryBootstrapMulti (lines 152-175): loaded is the result of
\* LoadBootstrapFunctionsOnce, answers the result of each candidate.
TryBootstrapMulti(loaded, answers) ==
    IF ~loaded
    THEN "ERROR_MOD_NOT_FOUND"
    ELSE TryCandidates(answers, 1, "E_FAIL")

\* kMaxWindowCreateAttempts (line 85).
kMaxWindowCreateAttempts == 8

\* DispatcherQueue.TryEnqueue: the item is queued while the thread's run
\* loop exists, and refused once the loop has ended.
WorkItem(op, n) == [op |-> op, n |-> n]
TryEnqueue(q, item) ==
    IF uiState[q] \in {"launched", "running"}
    THEN [queue EXCEPT ![q] = Append(@, item)]
    ELSE queue

\* EnqueueEvent (lines 403-415) run to its end with no poller in between.
RingPush(ev) ==
    /\ g_eventRing' = [g_eventRing EXCEPT ![g_eventHead] = ev]
    /\ g_eventHead' = (g_eventHead + 1) % kEventRingSize
    /\ g_eventTail' = IF EnqIsFull(g_eventHead, g_eventTail)
                      THEN (g_eventTail + 1) % kEventRingSize
                      ELSE g_eventTail
    /\ g_eventOverflow' = IF EnqIsFull(g_eventHead, g_eventTail)
                          THEN g_eventOverflow + 1
                          ELSE g_eventOverflow

Alive == proc = "running"

\* The UI thread whose run loop is running (the latest, if several).
RunningThread ==
    IF \E t \in Threads : uiState[t] = "running"
    THEN CHOOSE t \in Threads :
            /\ uiState[t] = "running"
            /\ \A u \in Threads : uiState[u] = "running" => u <= t
    ELSE 0

InitPcs == {"I_wait", "I_1001", "I_1004"}
ShutdownPcs == {"S_1049", "S_1139", "S_1157", "S_1174", "S_1179", "S_1196",
                "S_1377", "S_1384", "S_1393"}

LifeInitFor(limit, failures) ==
    /\ proc = "running"
    /\ g_lastHRESULT = "S_OK"
    /\ g_shutdownRequested = FALSE
    /\ g_closeCallback = FALSE
    /\ g_uiThread = 0
    /\ g_appThreadStarted = FALSE
    /\ g_appReady = FALSE
    /\ g_dispatcherQueue = 0
    /\ g_windowCreationScheduled = FALSE
    /\ g_window = FALSE
    /\ g_windowReady = FALSE
    /\ finished = FALSE
    /\ watchdogStarted = FALSE
    /\ closeCbFired = FALSE
    /\ launched = FALSE
    /\ closedHandler = FALSE
    /\ uiState = [t \in Threads |-> "none"]
    /\ queue = [t \in Threads |-> <<>>]
    /\ nextTid = 1
    /\ timers = {}
    /\ wd = "off"
    /\ wdWaited = 0
    /\ pc = [c \in AllCallers |-> "idle"]
    /\ firstCall = [c \in AllCallers |-> FALSE]
    /\ joinTarget = [c \in AllCallers |-> 0]
    /\ calls = 0
    /\ callLimit \in {limit}
    /\ lastCall = [c \in AllCallers |-> "none"]
    /\ callThread = [c \in AllCallers |-> 0]
    /\ callSeg = [c \in AllCallers |-> 0]
    /\ initResult = [c \in AllCallers |-> "none"]
    /\ initSeen = [c \in AllCallers |-> {}]
    /\ joined = [t \in Threads |-> FALSE]
    /\ teardownRuns = [t \in Threads |-> 0]
    /\ closeCbInvocations = 0
    /\ cbAtRequest = FALSE
    /\ bootFailed = [t \in Threads |-> FALSE]
    /\ windowBy = [t \in Threads |-> FALSE]
    /\ closedEvents = 0
    /\ createFailures = 0
    /\ g_pendingWindowTitle = ""
    /\ g_pendingInitialWidth = 0
    /\ g_pendingInitialHeight = 0
    /\ g_pendingBGSet = FALSE
    /\ g_minClientW = 0
    /\ winTitle = ""
    /\ winW = 0
    /\ winH = 0
    /\ winBG = FALSE
    /\ createLimit \in {failures}
    /\ attemptLog = <<>>
    /\ cwCall = [width |-> 0, height |-> 0, title |-> "", ret |-> "none"]
    /\ earlyTitle = ""
    /\ promise = [c \in AllCallers |-> "none"]
    /\ cmdResult = [c \in AllCallers |-> "none"]
    /\ g_controls = {}
    /\ ctlKind = [h \in Handles |-> "none"]
    /\ parentOf = [h \in Handles |-> 0]
    /\ nextCtl = 0
    /\ g_resizeCallback = FALSE
    /\ g_inputCallback = FALSE
    /\ g_lastPointerButton = 0
    /\ held = {}
    /\ upLog = <<>>
    /\ released = {}
    /\ cbLog = <<>>
    /\ teardownLog = <<>>
    /\ waitRet = [c \in AllCallers |-> NoWait]
    /\ wdArmedFor = -1

LifeInitWith(limit) == LifeInitFor(limit, MaxCreateFailures)

LifeInit == LifeInitWith(MaxCalls)

\* A caller that is not inside a call may start one (callLimit, which never
\* changes, bounds the number of calls of a behaviour).
MayCall(c) == Alive /\ c \in Callers /\ pc[c] = "idle" /\ calls < callLimit

(***************************************************************************)
(* InitUI (lines 995-1019).                                                *)
(***************************************************************************)
\* InitUI, line 997: StartAppThread (lines 877-950), all of it under
\* g_initMutex.  A started flag that is already set returns S_OK; otherwise a
\* new UI thread is created and move-assigned to g_uiThread, which calls
\* std::terminate when g_uiThread still holds a joinable thread.
StartAppThread(c) ==

    /\ MayCall(c)
    /\ g_appThreadStarted \/ nextTid <= MaxThreads
    /\ calls' = calls + 1
    /\ lastCall' = [lastCall EXCEPT ![c] = "InitUI"]
    /\ initResult' = [initResult EXCEPT ![c] = "none"]
    /\ initSeen' = [initSeen EXCEPT ![c] = {}]
    /\ callSeg' = [callSeg EXCEPT ![c] = IF g_appThreadStarted THEN nextTid - 1 ELSE nextTid]
    /\ pc' = [pc EXCEPT ![c] = "I_wait"]
    /\ g_appThreadStarted' = TRUE
    /\ nextTid' = IF g_appThreadStarted THEN nextTid ELSE nextTid + 1
    /\ uiState' = IF g_appThreadStarted THEN uiState
                  ELSE [uiState EXCEPT ![nextTid] = "boot"]
    /\ g_uiThread' = IF g_appThreadStarted \/ g_uiThread /= 0 THEN g_uiThread ELSE nextTid
    /\ proc' = IF ~g_appThreadStarted /\ g_uiThread /= 0 THEN "terminated" ELSE proc
    /\ UNCHANGED <<g_lastHRESULT, g_shutdownRequested, g_closeCallback, g_appReady,
                   g_dispatcherQueue, g_windowCreationScheduled, g_window,
                   g_windowReady, finished, watchdogStarted, closeCbFired, launched,
                   closedHandler, queue, timers, wd, wdWaited, firstCall, joinTarget,
                   callLimit, winVars, callThread, joined, teardownRuns, closeCbInvocations,
                   cbAtRequest, bootFailed, windowBy, closedEvents, createFailures,
                   g_eventRing, g_eventHead, g_eventTail, g_eventOverflow, enqVars,
                   pollVars, histVars>>

\* The result every InitUI return records: the caller's result, and, for
\* every other InitUI call of the same lifetime segment still in progress,
\* that this result was returned while it ran.
InitReturns(c, hr) ==
    /\ pc' = [pc EXCEPT ![c] = "idle"]
    /\ initResult' = [initResult EXCEPT ![c] = hr]
    /\ initSeen' = [d \in AllCallers |->
                      IF d /= c /\ pc[d] \in InitPcs /\ callSeg[d] = callSeg[c]
                      THEN initSeen[d] \cup {hr}
                      ELSE initSeen[d]]

\* InitUI, line 1000: WaitForAppReady (lines 952-958): blocks on g_initCv until
\* g_appReady; its result is assigned to hr and not used.
WaitForAppReady(c) ==

    /\ Alive
    /\ pc[c] = "I_wait"
    /\ g_appReady
    /\ pc' = [pc EXCEPT ![c] = "I_1001"]
    /\ UNCHANGED <<proc, g_lastHRESULT, g_shutdownRequested, g_closeCallback,
                   g_uiThread, g_appThreadStarted, g_appReady, g_dispatcherQueue,
                   g_windowCreationScheduled, g_window, g_windowReady, finished,
                   watchdogStarted, closeCbFired, launched, closedHandler, uiState,
                   queue, nextTid, timers, wd, wdWaited, firstCall, joinTarget, calls,
                   callLimit, winVars, lastCall, callThread, callSeg, initResult, initSeen,
                   joined, teardownRuns, closeCbInvocations, cbAtRequest, bootFailed,
                   windowBy, closedEvents, createFailures, g_eventRing, g_eventHead,
                   g_eventTail, g_eventOverflow, enqVars, pollVars, histVars>>

\* InitUI, lines 1001-1002: a failed g_lastHRESULT is returned.
InitCheckLast(c) ==

    /\ Alive
    /\ pc[c] = "I_1001"
    /\ IF FAILED(g_lastHRESULT)
       THEN InitReturns(c, g_lastHRESULT)
       ELSE /\ pc' = [pc EXCEPT ![c] = "I_1004"]
            /\ UNCHANGED <<initResult, initSeen>>
    /\ UNCHANGED <<proc, g_lastHRESULT, g_shutdownRequested, g_closeCallback,
                   g_uiThread, g_appThreadStarted, g_appReady, g_dispatcherQueue,
                   g_windowCreationScheduled, g_window, g_windowReady, finished,
                   watchdogStarted, closeCbFired, launched, closedHandler, uiState,
                   queue, nextTid, timers, wd, wdWaited, firstCall, joinTarget, calls,
                   callLimit, winVars, lastCall, callThread, callSeg, joined, teardownRuns,
                   closeCbInvocations, cbAtRequest, bootFailed, windowBy, closedEvents,
                   createFailures, g_eventRing, g_eventHead, g_eventTail,
                   g_eventOverflow, enqVars, pollVars, histVars>>

\* InitUI, lines 1004-1018: E_FAIL without a dispatcher queue, else S_OK; both
\* are recorded with SetLastErrorInfo.
InitFinish(c) ==

    /\ Alive
    /\ pc[c] = "I_1004"
    /\ g_lastHRESULT' = IF g_dispatcherQueue = 0 THEN "E_FAIL" ELSE "S_OK"
    /\ InitReturns(c, IF g_dispatcherQueue = 0 THEN "E_FAIL" ELSE "S_OK")
    /\ UNCHANGED <<proc, g_shutdownRequested, g_closeCallback, g_uiThread,
                   g_appThreadStarted, g_appReady, g_dispatcherQueue,
                   g_windowCreationScheduled, g_window, g_windowReady, finished,
                   watchdogStarted, closeCbFired, launched, closedHandler, uiState,
                   queue, nextTid, timers, wd, wdWaited, firstCall, joinTarget, calls,
                   callLimit, winVars, lastCall, callThread, callSeg, joined, teardownRuns,
                   closeCbInvocations, cbAtRequest, bootFailed, windowBy, closedEvents,
                   createFailures, g_eventRing, g_eventHead, g_eventTail,
                   g_eventOverflow, enqVars, pollVars, histVars>>

(***************************************************************************)
(* ShutdownUI (lines 1021-1412).                                           *)
(***************************************************************************)
\* The fast path taken by a first caller only.
TakesFastPathOnFirstCall(first) == first /\ finished

\* lines 1034-1040: a caller that is not the first one returns at once when
\* finished is set.
TakesFastPath(first) == ~first /\ finished

\* lines 1023-1040: under g_initMutex the first caller sets
\* g_shutdownRequested; a later caller returns at once when finished is set.
\* The Helper thread runs this as the body of the Closed handler's thread.
ShutdownEnter(c) ==

    /\ \/ MayCall(c)
       \/ (Alive /\ c = Helper /\ pc[c] = "spawned")
    /\ calls' = IF c = Helper THEN calls ELSE calls + 1
    /\ g_shutdownRequested' = TRUE
    /\ firstCall' = [firstCall EXCEPT ![c] = ~g_shutdownRequested]
    /\ cbAtRequest' = IF g_shutdownRequested THEN cbAtRequest ELSE g_closeCallback
    /\ callThread' = [callThread EXCEPT ![c] = RunningThread]
    /\ IF TakesFastPath(~g_shutdownRequested)
       THEN /\ g_lastHRESULT' = "S_OK"
            /\ pc' = [pc EXCEPT ![c] = "idle"]
            /\ lastCall' = [lastCall EXCEPT ![c] = "ShutdownUI"]
       ELSE /\ pc' = [pc EXCEPT ![c] = IF g_shutdownRequested THEN "S_1139" ELSE "S_1049"]
            /\ lastCall' = [lastCall EXCEPT ![c] = "in ShutdownUI"]
            /\ UNCHANGED g_lastHRESULT
    /\ UNCHANGED <<proc, g_closeCallback, g_uiThread, g_appThreadStarted, g_appReady,
                   g_dispatcherQueue, g_windowCreationScheduled, g_window,
                   g_windowReady, finished, watchdogStarted, closeCbFired, launched,
                   closedHandler, uiState, queue, nextTid, timers, wd, wdWaited,
                   joinTarget, callLimit, winVars, callSeg, initResult, initSeen, joined,
                   teardownRuns, closeCbInvocations, bootFailed, windowBy,
                   closedEvents, createFailures, g_eventRing, g_eventHead, g_eventTail,
                   g_eventOverflow, enqVars, pollVars, histVars>>

\* lines 1049-1135: the first caller marshals cleanupAndExit onto the UI
\* thread when there is a dispatcher queue.
ShutdownEnqueueCleanup(c) ==

    /\ Alive
    /\ pc[c] = "S_1049"
    /\ queue' = IF g_dispatcherQueue /= 0
                THEN TryEnqueue(g_dispatcherQueue, WorkItem("cleanupAndExit", 0))
                ELSE queue
    /\ pc' = [pc EXCEPT ![c] = "S_1139"]
    /\ UNCHANGED <<proc, g_lastHRESULT, g_shutdownRequested, g_closeCallback,
                   g_uiThread, g_appThreadStarted, g_appReady, g_dispatcherQueue,
                   g_windowCreationScheduled, g_window, g_windowReady, finished,
                   watchdogStarted, closeCbFired, launched, closedHandler, uiState,
                   nextTid, timers, wd, wdWaited, firstCall, joinTarget, calls,
                   callLimit, winVars, lastCall, callThread, callSeg, initResult, initSeen,
                   joined, teardownRuns, closeCbInvocations, cbAtRequest, bootFailed,
                   windowBy, closedEvents, createFailures, g_eventRing, g_eventHead,
                   g_eventTail, g_eventOverflow, enqVars, pollVars, histVars>>

\* lines 1137-1155: watchdogStarted.exchange(true); the caller that finds it
\* false starts the watchdog thread.
ShutdownArmWatchdog(c) ==

    /\ Alive
    /\ pc[c] = "S_1139"
    /\ watchdogStarted' = TRUE
    /\ wd' = IF watchdogStarted THEN wd ELSE "run"
    /\ wdWaited' = IF watchdogStarted THEN wdWaited ELSE 0
    /\ wdArmedFor' = IF watchdogStarted THEN wdArmedFor ELSE g_uiThread
    /\ pc' = [pc EXCEPT ![c] = IF firstCall[c] THEN "S_1174" ELSE "S_1157"]
    /\ UNCHANGED <<proc, g_lastHRESULT, g_shutdownRequested, g_closeCallback,
                   g_uiThread, g_appThreadStarted, g_appReady, g_dispatcherQueue,
                   g_windowCreationScheduled, g_window, g_windowReady, finished,
                   closeCbFired, launched, closedHandler, uiState, queue, nextTid,
                   timers, firstCall, joinTarget, calls, callLimit, windowSide, cmdVars, regVars,
                   callbackVars, released, cbLog, teardownLog, waitRet, lastCall,
                   callThread, callSeg, initResult, initSeen, joined, teardownRuns,
                   closeCbInvocations, cbAtRequest, bootFailed, windowBy, closedEvents,
                   createFailures, g_eventRing, g_eventHead, g_eventTail,
                   g_eventOverflow, enqVars, pollVars, histVars>>

\* lines 1157-1172: a repeat caller enqueues another app.Exit().
ShutdownNudge(c) ==

    /\ Alive
    /\ pc[c] = "S_1157"
    /\ queue' = IF g_dispatcherQueue /= 0
                THEN TryEnqueue(g_dispatcherQueue, WorkItem("exit", 0))
                ELSE queue
    /\ pc' = [pc EXCEPT ![c] = "S_1174"]
    /\ UNCHANGED <<proc, g_lastHRESULT, g_shutdownRequested, g_closeCallback,
                   g_uiThread, g_appThreadStarted, g_appReady, g_dispatcherQueue,
                   g_windowCreationScheduled, g_window, g_windowReady, finished,
                   watchdogStarted, closeCbFired, launched, closedHandler, uiState,
                   nextTid, timers, wd, wdWaited, firstCall, joinTarget, calls,
                   callLimit, winVars, lastCall, callThread, callSeg, initResult, initSeen,
                   joined, teardownRuns, closeCbInvocations, cbAtRequest, bootFailed,
                   windowBy, closedEvents, createFailures, g_eventRing, g_eventHead,
                   g_eventTail, g_eventOverflow, enqVars, pollVars, histVars>>

\* lines 1174-1179: g_uiThread.joinable(), then join() on the thread
\* g_uiThread holds.
ShutdownJoinBegin(c) ==

    /\ Alive
    /\ pc[c] = "S_1174"
    /\ joinTarget' = [joinTarget EXCEPT ![c] = g_uiThread]
    /\ pc' = [pc EXCEPT ![c] = IF g_uiThread /= 0 THEN "S_1179" ELSE "S_1196"]
    /\ UNCHANGED <<proc, g_lastHRESULT, g_shutdownRequested, g_closeCallback,
                   g_uiThread, g_appThreadStarted, g_appReady, g_dispatcherQueue,
                   g_windowCreationScheduled, g_window, g_windowReady, finished,
                   watchdogStarted, closeCbFired, launched, closedHandler, uiState,
                   queue, nextTid, timers, wd, wdWaited, firstCall, calls, callLimit, winVars,
                   lastCall, callThread, callSeg, initResult, initSeen, joined,
                   teardownRuns, closeCbInvocations, cbAtRequest, bootFailed, windowBy,
                   closedEvents, createFailures, g_eventRing, g_eventHead, g_eventTail,
                   g_eventOverflow, enqVars, pollVars, histVars>>

\* What join() leaves in g_uiThread when it returns for thread t.  The
\* joining caller resets the std::thread it joined.  When another caller has
\* meanwhile joined it too, or InitUI has assigned a new thread to it, the
\* two accesses are a data race: the reset either does not happen (join
\* throws, lines 1181-1183) or clears whatever g_uiThread holds then.
JoinLeaves(t) ==
    IF g_uiThread = t \/ g_uiThread = 0 THEN {0} ELSE {g_uiThread, 0}

\* line 1179: join() returns once the joined thread has ended.
ShutdownJoinEnd(c) ==

    /\ Alive
    /\ pc[c] = "S_1179"
    /\ uiState[joinTarget[c]] = "exited"
    /\ joined' = [joined EXCEPT ![joinTarget[c]] = TRUE]
    /\ g_uiThread' \in JoinLeaves(joinTarget[c])
    /\ pc' = [pc EXCEPT ![c] = "S_1196"]
    /\ UNCHANGED <<proc, g_lastHRESULT, g_shutdownRequested, g_closeCallback,
                   g_appThreadStarted, g_appReady, g_dispatcherQueue,
                   g_windowCreationScheduled, g_window, g_windowReady, finished,
                   watchdogStarted, closeCbFired, launched, closedHandler, uiState,
                   queue, nextTid, timers, wd, wdWaited, firstCall, joinTarget, calls,
                   callLimit, winVars, lastCall, callThread, callSeg, initResult, initSeen,
                   teardownRuns, closeCbInvocations, cbAtRequest, bootFailed, windowBy,
                   closedEvents, createFailures, g_eventRing, g_eventHead, g_eventTail,
                   g_eventOverflow, enqVars, pollVars, histVars>>

\* lines 1196-1376, on the calling thread: the window's handlers and content
\* are cleared, the control registry is cleared, g_window, the overlay elements
\* and the three callbacks are nulled, then g_dispatcherQueue and g_uiThreadId.
ShutdownCleanup(c) ==

    /\ Alive
    /\ pc[c] = "S_1196"
    /\ closedHandler' = FALSE
    /\ g_window' = FALSE
    /\ g_closeCallback' = FALSE
    /\ g_controls' = {}
    /\ g_resizeCallback' = FALSE
    /\ g_inputCallback' = FALSE
    /\ g_dispatcherQueue' = 0
    /\ pc' = [pc EXCEPT ![c] = "S_1377"]
    /\ UNCHANGED <<proc, g_lastHRESULT, g_shutdownRequested, g_uiThread,
                   g_appThreadStarted, g_appReady, g_windowCreationScheduled,
                   g_windowReady, finished, watchdogStarted, closeCbFired, launched,
                   uiState, queue, nextTid, timers, wd, wdWaited, firstCall,
                   joinTarget, calls, callLimit, pendingVars, g_minClientW, windowVars, winHistVars,
                   cmdVars, ctlKind, parentOf, nextCtl, g_lastPointerButton, mouseVars,
                   ctlHistVars, lastCall, callThread, callSeg,
                   initResult, initSeen, joined, teardownRuns, closeCbInvocations,
                   cbAtRequest, bootFailed, windowBy, closedEvents, createFailures,
                   g_eventRing, g_eventHead, g_eventTail, g_eventOverflow, enqVars,
                   pollVars, histVars>>

\* lines 1377-1383, under g_initMutex: g_appReady, g_appThreadStarted and
\* g_windowCreationScheduled are cleared.
ShutdownResetFlags(c) ==

    /\ Alive
    /\ pc[c] = "S_1377"
    /\ g_appReady' = FALSE
    /\ g_appThreadStarted' = FALSE
    /\ g_windowCreationScheduled' = FALSE
    /\ pc' = [pc EXCEPT ![c] = "S_1384"]
    /\ UNCHANGED <<proc, g_lastHRESULT, g_shutdownRequested, g_closeCallback,
                   g_uiThread, g_dispatcherQueue, g_window, g_windowReady, finished,
                   watchdogStarted, closeCbFired, launched, closedHandler, uiState,
                   queue, nextTid, timers, wd, wdWaited, firstCall, joinTarget, calls,
                   callLimit, winVars, lastCall, callThread, callSeg, initResult, initSeen,
                   joined, teardownRuns, closeCbInvocations, cbAtRequest, bootFailed,
                   windowBy, closedEvents, createFailures, g_eventRing, g_eventHead,
                   g_eventTail, g_eventOverflow, enqVars, pollVars, histVars>>

\* line 1384: finished.store(true).
ShutdownFinished(c) ==

    /\ Alive
    /\ pc[c] = "S_1384"
    /\ finished' = TRUE
    /\ pc' = [pc EXCEPT ![c] = "S_1393"]
    /\ UNCHANGED <<proc, g_lastHRESULT, g_shutdownRequested, g_closeCallback,
                   g_uiThread, g_appThreadStarted, g_appReady, g_dispatcherQueue,
                   g_windowCreationScheduled, g_window, g_windowReady, watchdogStarted,
                   closeCbFired, launched, closedHandler, uiState, queue, nextTid,
                   timers, wd, wdWaited, firstCall, joinTarget, calls, callLimit, winVars,
                   lastCall, callThread, callSeg, initResult, initSeen, joined,
                   teardownRuns, closeCbInvocations, cbAtRequest, bootFailed, windowBy,
                   closedEvents, createFailures, g_eventRing, g_eventHead, g_eventTail,
                   g_eventOverflow, enqVars, pollVars, histVars>>

\* lines 1393-1411: closeCbFired.exchange(true); the caller that finds it false
\* invokes g_closeCallback when it is not null; g_windowReady is cleared and
\* S_OK recorded; the call returns.
ShutdownComplete(c) ==

    /\ Alive
    /\ pc[c] = "S_1393"
    /\ closeCbFired' = TRUE
    /\ closeCbInvocations' = IF ~closeCbFired /\ g_closeCallback
                             THEN closeCbInvocations + 1
                             ELSE closeCbInvocations
    /\ g_windowReady' = FALSE
    /\ g_lastHRESULT' = "S_OK"
    /\ lastCall' = [lastCall EXCEPT ![c] = "ShutdownUI"]
    /\ pc' = [pc EXCEPT ![c] = "idle"]
    /\ UNCHANGED <<proc, g_shutdownRequested, g_closeCallback, g_uiThread,
                   g_appThreadStarted, g_appReady, g_dispatcherQueue,
                   g_windowCreationScheduled, g_window, finished, watchdogStarted,
                   launched, closedHandler, uiState, queue, nextTid, timers, wd,
                   wdWaited, firstCall, joinTarget, calls, callLimit, winVars, callThread,
                   callSeg, initResult, initSeen, joined, teardownRuns, cbAtRequest,
                   bootFailed, windowBy, closedEvents, createFailures, g_eventRing,
                   g_eventHead, g_eventTail, g_eventOverflow, enqVars, pollVars,
                   histVars>>

(***************************************************************************)
(* Other exports the lifecycle claims need.                                *)
(***************************************************************************)
\* register_close_callback (lines 1568-1571), with a non-null callback.
register_close_callback(c) ==

    /\ MayCall(c)
    /\ calls' = calls + 1
    /\ g_closeCallback' = TRUE
    /\ UNCHANGED <<proc, g_lastHRESULT, g_shutdownRequested, g_uiThread,
                   g_appThreadStarted, g_appReady, g_dispatcherQueue,
                   g_windowCreationScheduled, g_window, g_windowReady, finished,
                   watchdogStarted, closeCbFired, launched, closedHandler, uiState,
                   queue, nextTid, timers, wd, wdWaited, pc, firstCall, joinTarget,
                   callLimit, winVars, lastCall, callThread, callSeg, initResult, initSeen,
                   joined, teardownRuns, closeCbInvocations, cbAtRequest, bootFailed,
                   windowBy, closedEvents, createFailures, g_eventRing, g_eventHead,
                   g_eventTail, g_eventOverflow, enqVars, pollVars, histVars>>

\* A create_window without the branch for an existing window.
create_windowAlwaysSchedules(c, width, height, title) ==

    /\ MayCall(c)
    /\ calls' = calls + 1
    /\ IF FALSE
       THEN /\ winTitle' = IF title /= "" THEN title ELSE winTitle
            /\ winW' = IF width > 0 /\ height > 0 THEN width ELSE winW
            /\ winH' = IF width > 0 /\ height > 0 THEN height ELSE winH
            /\ cwCall' = [width |-> width, height |-> height, title |-> title,
                          ret |-> "handle"]
            /\ UNCHANGED <<pendingVars, g_windowCreationScheduled, timers>>
       ELSE /\ g_pendingWindowTitle' = IF title /= "" THEN title
                                       ELSE g_pendingWindowTitle
            /\ g_pendingInitialWidth' = IF width > 0 THEN width
                                        ELSE g_pendingInitialWidth
            /\ g_pendingInitialHeight' = IF height > 0 THEN height
                                         ELSE g_pendingInitialHeight
            /\ g_windowCreationScheduled' = TRUE
            /\ timers' = IF ~g_windowCreationScheduled
                         THEN timers \cup {0}
                         ELSE timers
            /\ cwCall' = [width |-> width, height |-> height, title |-> title,
                          ret |-> "null"]
            /\ UNCHANGED <<g_pendingBGSet, winTitle, winW, winH>>
    /\ g_lastHRESULT' = "S_OK"
    /\ UNCHANGED <<proc, g_shutdownRequested, g_closeCallback, g_uiThread,
                   g_appThreadStarted, g_appReady, g_dispatcherQueue, g_window,
                   g_windowReady, finished, watchdogStarted, closeCbFired, launched,
                   closedHandler, uiState, queue, nextTid, wd, wdWaited, pc, firstCall,
                   joinTarget, callLimit, ctlVars, g_minClientW, winBG, createLimit, cmdVars, attemptLog,
                   earlyTitle, lastCall, callThread, callSeg, initResult,
                   initSeen, joined, teardownRuns, closeCbInvocations, cbAtRequest,
                   bootFailed, windowBy, closedEvents, createFailures, g_eventRing,
                   g_eventHead, g_eventTail, g_eventOverflow, enqVars, pollVars,
                   histVars>>

\* create_window (lines 1737-1803): with a window, the existing one is
\* returned; without, the first creation attempt is scheduled unless one already
\* is.  Both record S_OK.
create_window(c, width, height, title) ==

    /\ MayCall(c)
    /\ calls' = calls + 1
    /\ IF g_window
       THEN /\ winTitle' = IF title /= "" THEN title ELSE winTitle
            /\ winW' = IF width > 0 /\ height > 0 THEN width ELSE winW
            /\ winH' = IF width > 0 /\ height > 0 THEN height ELSE winH
            /\ cwCall' = [width |-> width, height |-> height, title |-> title,
                          ret |-> "handle"]
            /\ UNCHANGED <<pendingVars, g_windowCreationScheduled, timers>>
       ELSE /\ g_pendingWindowTitle' = IF title /= "" THEN title
                                       ELSE g_pendingWindowTitle
            /\ g_pendingInitialWidth' = IF width > 0 THEN width
                                        ELSE g_pendingInitialWidth
            /\ g_pendingInitialHeight' = IF height > 0 THEN height
                                         ELSE g_pendingInitialHeight
            /\ g_windowCreationScheduled' = TRUE
            /\ timers' = IF ~g_windowCreationScheduled
                         THEN timers \cup {0}
                         ELSE timers
            /\ cwCall' = [width |-> width, height |-> height, title |-> title,
                          ret |-> "null"]
            /\ UNCHANGED <<g_pendingBGSet, winTitle, winW, winH>>
    /\ g_lastHRESULT' = "S_OK"
    /\ UNCHANGED <<proc, g_shutdownRequested, g_closeCallback, g_uiThread,
                   g_appThreadStarted, g_appReady, g_dispatcherQueue, g_window,
                   g_windowReady, finished, watchdogStarted, closeCbFired, launched,
                   closedHandler, uiState, queue, nextTid, wd, wdWaited, pc, firstCall,
                   joinTarget, callLimit, ctlVars, g_minClientW, winBG, createLimit, cmdVars, attemptLog,
                   earlyTitle, lastCall, callThread, callSeg, initResult,
                   initSeen, joined, teardownRuns, closeCbInvocations, cbAtRequest,
                   bootFailed, windowBy, closedEvents, createFailures, g_eventRing,
                   g_eventHead, g_eventTail, g_eventOverflow, enqVars, pollVars,
                   histVars>>

(***************************************************************************)
(* The UI thread: the lambda of StartAppThread (lines 886-942), the        *)
(* application's OnLaunched (lines 490-546) and the work its run loop      *)
(* takes from the dispatcher queue.                                        *)
(***************************************************************************)
\* lines 888-899: TryBootstrapMulti.  A failure is recorded by LogHRESULT;
\* success records S_OK (g_bootstrapVersion, which only selects the bootstrap
\* shutdown call of lines 1327-1360, is not part of the model).
UIBootstrap(t) ==

    /\ Alive
    /\ uiState[t] = "boot"
    /\ \E loaded \in BOOLEAN, answers \in [1 .. Len(kBootstrapCandidates) -> BootstrapAnswers] :
         LET hr == TryBootstrapMulti(loaded, answers) IN
           /\ g_lastHRESULT' = hr
           /\ uiState' = [uiState EXCEPT ![t] = IF FAILED(hr) THEN "bootfailed" ELSE "starting"]
           /\ bootFailed' = [bootFailed EXCEPT ![t] = FAILED(hr)]
    /\ UNCHANGED <<proc, g_shutdownRequested, g_closeCallback, g_uiThread,
                   g_appThreadStarted, g_appReady, g_dispatcherQueue,
                   g_windowCreationScheduled, g_window, g_windowReady, finished,
                   watchdogStarted, closeCbFired, launched, closedHandler, queue,
                   nextTid, timers, wd, wdWaited, pc, firstCall, joinTarget, calls,
                   callLimit, winVars, lastCall, callThread, callSeg, initResult, initSeen,
                   joined, teardownRuns, closeCbInvocations, cbAtRequest, windowBy,
                   closedEvents, createFailures, g_eventRing, g_eventHead, g_eventTail,
                   g_eventOverflow, enqVars, pollVars, histVars>>

\* lines 889-897: after a failed bootstrap g_appReady is set under
\* g_initMutex, the waiters are notified and the thread function returns.
UIBootstrapFailed(t) ==

    /\ Alive
    /\ uiState[t] = "bootfailed"
    /\ g_appReady' = TRUE
    /\ uiState' = [uiState EXCEPT ![t] = "exited"]
    /\ UNCHANGED <<proc, g_lastHRESULT, g_shutdownRequested, g_closeCallback,
                   g_uiThread, g_appThreadStarted, g_dispatcherQueue,
                   g_windowCreationScheduled, g_window, g_windowReady, finished,
                   watchdogStarted, closeCbFired, launched, closedHandler, queue,
                   nextTid, timers, wd, wdWaited, pc, firstCall, joinTarget, calls,
                   callLimit, winVars, lastCall, callThread, callSeg, initResult, initSeen,
                   joined, teardownRuns, closeCbInvocations, cbAtRequest, bootFailed,
                   windowBy, closedEvents, createFailures, g_eventRing, g_eventHead,
                   g_eventTail, g_eventOverflow, enqVars, pollVars, histVars>>

\* lines 912-933 and 490-493: the apartment is initialized, Application::Start
\* runs OnLaunched, which stores the thread's dispatcher queue and id.
UIOnLaunched(t) ==

    /\ Alive
    /\ uiState[t] = "starting"
    /\ g_dispatcherQueue' = t
    /\ uiState' = [uiState EXCEPT ![t] = "launched"]
    /\ UNCHANGED <<proc, g_lastHRESULT, g_shutdownRequested, g_closeCallback,
                   g_uiThread, g_appThreadStarted, g_appReady,
                   g_windowCreationScheduled, g_window, g_windowReady, finished,
                   watchdogStarted, closeCbFired, launched, closedHandler, queue,
                   nextTid, timers, wd, wdWaited, pc, firstCall, joinTarget, calls,
                   callLimit, winVars, lastCall, callThread, callSeg, initResult, initSeen,
                   joined, teardownRuns, closeCbInvocations, cbAtRequest, bootFailed,
                   windowBy, closedEvents, createFailures, g_eventRing, g_eventHead,
                   g_eventTail, g_eventOverflow, enqVars, pollVars, histVars>>

\* lines 535-546: g_appReady is set under g_initMutex and the waiters notified;
\* the first window creation is scheduled unless it already is; the run loop
\* starts.
UIAppReady(t) ==

    /\ Alive
    /\ uiState[t] = "launched"
    /\ g_appReady' = TRUE
    /\ g_windowCreationScheduled' = TRUE
    /\ timers' = IF g_windowCreationScheduled THEN timers ELSE timers \cup {0}
    /\ uiState' = [uiState EXCEPT ![t] = "running"]
    /\ UNCHANGED <<proc, g_lastHRESULT, g_shutdownRequested, g_closeCallback,
                   g_uiThread, g_appThreadStarted, g_dispatcherQueue, g_window,
                   g_windowReady, finished, watchdogStarted, closeCbFired, launched,
                   closedHandler, queue, nextTid, wd, wdWaited, pc, firstCall,
                   joinTarget, calls, callLimit, winVars, lastCall, callThread, callSeg,
                   initResult, initSeen, joined, teardownRuns, closeCbInvocations,
                   cbAtRequest, bootFailed, windowBy, closedEvents, createFailures,
                   g_eventRing, g_eventHead, g_eventTail, g_eventOverflow, enqVars,
                   pollVars, histVars>>

\* The closures still queued when the run loop of thread t ends are released
\* without having run.  The closure of create_text_input owns its promise
\* (promisePtr, line 1821): releasing it breaks the promise.  The closures
\* of create_stack_panel and create_grid refer to a promise on the caller's
\* stack (lines 1992-1997, 2031-2036), which is left unset.
DropClosures(t) ==
    [c \in AllCallers |->
        IF \E i \in 1 .. Len(queue[t]) :
              /\ queue[t][i].op = "create_text_input"
              /\ queue[t][i].caller = c
        THEN "broken"
        ELSE promise[c]]

\* The run loop of thread t has the work item `op` next.
NextWork(t, op) ==
    /\ Alive
    /\ uiState[t] = "running"
    /\ queue[t] /= <<>>
    /\ Head(queue[t]).op = op

\* The steps of the cleanupAndExit closure in the order of lines 1058-1127:
\* with a window its handlers are replaced (1058-1092); the callbacks are
\* nulled (1094-1096); with a window its content is cleared (1098-1108);
\* the overlay elements are released (1110-1112); the registry is cleared
\* (1116); app.Exit() is called (1125-1127).
CleanupSteps(hasWindow) ==
    (IF hasWindow THEN <<"handlers">> ELSE <<>>)
    \o <<"callbacks">>
    \o (IF hasWindow THEN <<"content">> ELSE <<>>)
    \o <<"overlay", "registry", "exit">>

\* The cleanupAndExit closure (lines 1052-1133) on the UI thread: window
\* handlers detached, callbacks nulled, window content cleared, overlay
\* released, control registry cleared, app.Exit().  The run loop returns and
\* the thread ends (lines 935-942).  When third-party teardown hangs, the
\* closure never completes and the thread stays in it.
UICleanupAndExit(t) ==

    /\ NextWork(t, "cleanupAndExit")
    /\ teardownRuns' = [teardownRuns EXCEPT ![t] = @ + 1]
    /\ \E hangs \in BOOLEAN :
         IF hangs
         THEN /\ uiState' = [uiState EXCEPT ![t] = "hung"]
              /\ UNCHANGED <<queue, closedHandler, g_closeCallback, promise,
                             g_controls, g_resizeCallback, g_inputCallback,
                             teardownLog>>
         ELSE /\ uiState' = [uiState EXCEPT ![t] = "exited"]
              /\ queue' = [queue EXCEPT ![t] = <<>>]
              /\ closedHandler' = FALSE
              /\ g_closeCallback' = FALSE
              /\ g_resizeCallback' = FALSE
              /\ g_inputCallback' = FALSE
              /\ g_controls' = {}
              /\ teardownLog' = teardownLog \o CleanupSteps(g_window)
              /\ promise' = DropClosures(t)
    /\ UNCHANGED <<proc, g_lastHRESULT, g_shutdownRequested, g_uiThread,
                   g_appThreadStarted, g_appReady, g_dispatcherQueue,
                   g_windowCreationScheduled, g_window, g_windowReady, finished,
                   watchdogStarted, closeCbFired, launched, nextTid, timers, wd,
                   wdWaited, pc, firstCall, joinTarget, calls, callLimit, ctlKind, parentOf, nextCtl, g_lastPointerButton, mouseVars,
                   released, cbLog, waitRet, wdArmedFor, pendingVars, g_minClientW, windowVars, winHistVars, cmdResult, lastCall,
                   callThread, callSeg, initResult, initSeen, joined,
                   closeCbInvocations, cbAtRequest, bootFailed, windowBy, closedEvents,
                   createFailures, g_eventRing, g_eventHead, g_eventTail,
                   g_eventOverflow, enqVars, pollVars, histVars>>

\* The closure of lines 1161-1167 on the UI thread: app.Exit(); the run loop
\* returns and the thread ends.
UIExitNudge(t) ==

    /\ NextWork(t, "exit")
    /\ uiState' = [uiState EXCEPT ![t] = "exited"]
    /\ queue' = [queue EXCEPT ![t] = <<>>]
    /\ promise' = DropClosures(t)
    /\ teardownLog' = Append(teardownLog, "exit")
    /\ UNCHANGED <<proc, g_lastHRESULT, g_shutdownRequested, g_closeCallback,
                   g_uiThread, g_appThreadStarted, g_appReady, g_dispatcherQueue,
                   g_windowCreationScheduled, g_window, g_windowReady, finished,
                   watchdogStarted, closeCbFired, launched, closedHandler, nextTid,
                   timers, wd, wdWaited, pc, firstCall, joinTarget, calls, callLimit, regVars, callbackVars, released, cbLog, waitRet, wdArmedFor, pendingVars, g_minClientW, windowVars, winHistVars, cmdResult,
                   lastCall, callThread, callSeg, initResult, initSeen, joined,
                   teardownRuns, closeCbInvocations, cbAtRequest, bootFailed, windowBy,
                   closedEvents, createFailures, g_eventRing, g_eventHead, g_eventTail,
                   g_eventOverflow, enqVars, pollVars, histVars>>

\* How one run of AttemptCreateMainWindow can end: the window is created;
\* an hresult_error is thrown (E_NOINTERFACE, or another code) by the Window
\* constructor of line 570 (g_window stays null) or by a later call of the
\* try block (g_window is already assigned; the model takes the throwing
\* call to be Activate of line 616, after the title and before the size);
\* an unknown exception.
CreateOutcomes ==
    {[kind |-> "ok", hr |-> "S_OK", late |-> FALSE]}
    \cup {[kind |-> "hresult_error", hr |-> h, late |-> l] :
             h \in {"E_NOINTERFACE", "E_ACCESSDENIED"}, l \in BOOLEAN}
    \cup {[kind |-> "unknown", hr |-> "E_FAIL", late |-> FALSE]}

\* A retry condition that allows one attempt more.
CreateRetriesOneMore(o, attempt) ==
    /\ o.kind = "hresult_error"
    /\ o.hr = "E_NOINTERFACE"
    /\ attempt < kMaxWindowCreateAttempts

\* A retry condition that retries after every hresult_error.
CreateRetriesAnyError(o, attempt) ==
    /\ o.kind = "hresult_error"
    /\ attempt + 1 < kMaxWindowCreateAttempts

\* The catch blocks of AttemptCreateMainWindow (lines 841-871): the
\* HRESULT recorded, and whether a retry is scheduled.
CreateRetries(o, attempt) ==
    /\ o.kind = "hresult_error"
    /\ o.hr = "E_NOINTERFACE"
    /\ attempt + 1 < kMaxWindowCreateAttempts

\* The else branch of the hresult_error handler (lines 854-866) appends
\* " (giving up)" to the recorded message when attempt + 1 reaches the limit.
GivingUp(o, attempt) ==
    /\ o.kind = "hresult_error"
    /\ ~CreateRetries(o, attempt)
    /\ attempt + 1 >= kMaxWindowCreateAttempts

\* The title given to the new window (lines 601-614): the pending title,
\* or "Go WinUI Host" when the pending title is empty.
InitialTitle == IF g_pendingWindowTitle = "" THEN "Go WinUI Host"
                ELSE g_pendingWindowTitle

\* The client size given to the new window (lines 686-706): the pending
\* size when both pending dimensions are positive, the platform's default
\* size (written <<0, 0>>) otherwise.
InitialSize == IF g_pendingInitialWidth > 0 /\ g_pendingInitialHeight > 0
               THEN <<g_pendingInitialWidth, g_pendingInitialHeight>>
               ELSE <<0, 0>>

\* g_windowReadyCv.notify_all() (line 722): every caller blocked in
\* wait_for_window_ready's wait_until (line 1434) is woken.
NotifyAll == [c \in AllCallers |-> IF pc[c] = "W_blocked" THEN "W_woken" ELSE pc[c]]

\* AttemptCreateMainWindow(attempt) (lines 563-872) on the UI thread: nothing
\* with a window; else the window is created, its handlers wired, the
\* window_created event enqueued, g_windowReady set, the waiters notified,
\* the window's handle put in g_controls (line 833) and S_OK recorded, or the
\* failure is recorded and, for E_NOINTERFACE below the attempt limit, the
\* next attempt scheduled.  attemptLog records every run of the function:
\* its attempt number, the HRESULT it recorded ("none" when it returned at
\* line 566) and whether the message recorded says "giving up".
UIAttemptCreateMainWindow(t) ==

    /\ NextWork(t, "create")
    /\ queue' = [queue EXCEPT ![t] = Tail(@)]
    /\ IF g_window
       THEN /\ attemptLog' = Append(attemptLog,
                                    [n |-> Head(queue[t]).n, hr |-> "none",
                                     givingUp |-> FALSE])
            /\ UNCHANGED <<g_window, g_windowReady, closedHandler, g_lastHRESULT,
                           timers, windowBy, createFailures, g_eventRing,
                           g_eventHead, g_eventTail, g_eventOverflow, windowVars,
                           g_controls, ctlKind, pc>>
       ELSE \E o \in CreateOutcomes :
              /\ o.kind /= "ok" => createFailures < createLimit
              /\ attemptLog' = Append(attemptLog,
                                      [n |-> Head(queue[t]).n, hr |-> o.hr,
                                       givingUp |-> GivingUp(o, Head(queue[t]).n)])
              /\ winTitle' = IF o.kind = "ok" \/ o.late
                             THEN InitialTitle ELSE winTitle
              /\ winW' = IF o.kind = "ok" THEN InitialSize[1]
                         ELSE IF o.late THEN 0 ELSE winW
              /\ winH' = IF o.kind = "ok" THEN InitialSize[2]
                         ELSE IF o.late THEN 0 ELSE winH
              /\ winBG' = IF o.kind = "ok" THEN g_pendingBGSet
                          ELSE IF o.late THEN FALSE ELSE winBG
              /\ createFailures' = IF o.kind = "ok" THEN createFailures
                                   ELSE createFailures + 1
              /\ g_window' = (o.kind = "ok" \/ o.late)
              /\ g_windowReady' = IF o.kind = "ok" THEN TRUE ELSE g_windowReady
              /\ closedHandler' = IF o.kind = "ok" THEN TRUE ELSE closedHandler
              /\ windowBy' = [windowBy EXCEPT ![t] = @ \/ o.kind = "ok"]
              /\ g_lastHRESULT' = o.hr
              /\ g_controls' = IF o.kind = "ok"
                               THEN g_controls \cup {WindowHandle}
                               ELSE g_controls
              /\ ctlKind' = IF o.kind = "ok"
                            THEN [ctlKind EXCEPT ![WindowHandle] = "window"]
                            ELSE ctlKind
              /\ pc' = IF o.kind = "ok" THEN NotifyAll ELSE pc
              /\ timers' = IF CreateRetries(o, Head(queue[t]).n)
                           THEN timers \cup {Head(queue[t]).n + 1}
                           ELSE timers
              /\ IF o.kind = "ok"
                 THEN RingPush(WinUIEventInternal(5, 0, 0, 0, 0, 0, 0, 0))
                 ELSE UNCHANGED <<g_eventRing, g_eventHead, g_eventTail,
                                  g_eventOverflow>>
    /\ UNCHANGED <<proc, g_shutdownRequested, g_closeCallback, g_uiThread,
                   g_appThreadStarted, g_appReady, g_dispatcherQueue,
                   g_windowCreationScheduled, finished, watchdogStarted, closeCbFired,
                   launched, uiState, nextTid, wd, wdWaited, firstCall, joinTarget,
                   calls, callLimit, parentOf, nextCtl, callbackVars, ctlHistVars, pendingVars, g_minClientW, createLimit, cmdVars, cwCall,
                   earlyTitle, lastCall, callThread, callSeg, initResult,
                   initSeen, joined, teardownRuns, closeCbInvocations, cbAtRequest,
                   bootFailed, closedEvents, enqVars, pollVars, histVars>>

\* A Closed handler that starts the helper thread every time.
StartsShutdownAlways == TRUE

\* launched.exchange(true) (line 808) finds the flag clear.
StartsShutdown == ~launched

\* The Closed handler (lines 805-818) on the UI thread: the window_closed
\* event is enqueued and, the first time, a detached thread is started that
\* calls ShutdownUI.
ClosedHandler(t) ==

    /\ Alive
    /\ uiState[t] = "running"
    /\ g_window
    /\ closedHandler
    /\ windowBy[t]
    /\ closedEvents' = closedEvents + 1
    /\ RingPush(WinUIEventInternal(4, 0, 0, 0, 0, 0, 0, 0))
    /\ launched' = TRUE
    /\ pc' = IF StartsShutdown THEN [pc EXCEPT ![Helper] = "spawned"] ELSE pc
    /\ UNCHANGED <<proc, g_lastHRESULT, g_shutdownRequested, g_closeCallback,
                   g_uiThread, g_appThreadStarted, g_appReady, g_dispatcherQueue,
                   g_windowCreationScheduled, g_window, g_windowReady, finished,
                   watchdogStarted, closeCbFired, closedHandler, uiState, queue,
                   nextTid, timers, wd, wdWaited, firstCall, joinTarget, calls,
                   callLimit, winVars, lastCall, callThread, callSeg, initResult, initSeen,
                   joined, teardownRuns, closeCbInvocations, cbAtRequest, bootFailed,
                   windowBy, createFailures, enqVars, pollVars, histVars>>

\* The Closed signal of the window, at most MaxClosed times in a run.
UIWindowClosed(t) == closedEvents < MaxClosed /\ ClosedHandler(t)

(***************************************************************************)
(* The detached threads: ScheduleWindowCreation's timer and the watchdog.  *)
(***************************************************************************)
\* A timer thread that itself enqueues the window_created event.
ScheduleWindowCreationEnqueues(attempt) ==

    /\ Alive
    /\ attempt \in timers
    /\ timers' = timers \ {attempt}
    /\ queue' = IF g_dispatcherQueue /= 0
                THEN TryEnqueue(g_dispatcherQueue, WorkItem("create", attempt))
                ELSE queue
    /\ RingPush(WinUIEventInternal(5, 0, 0, 0, 0, 0, 0, 0))
    /\ UNCHANGED <<proc, g_lastHRESULT, g_shutdownRequested, g_closeCallback,
                   g_uiThread, g_appThreadStarted, g_appReady, g_dispatcherQueue,
                   g_windowCreationScheduled, g_window, g_windowReady, finished,
                   watchdogStarted, closeCbFired, launched, closedHandler, uiState,
                   nextTid, wd, wdWaited, pc, firstCall, joinTarget, calls, callLimit, winVars,
                   lastCall, callThread, callSeg, initResult, initSeen, joined,
                   teardownRuns, closeCbInvocations, cbAtRequest, bootFailed, windowBy,
                   closedEvents, createFailures, enqVars, pollVars, histVars>>

\* The thread of ScheduleWindowCreation (lines 549-561) after its sleep:
\* AttemptCreateMainWindow(attempt) is enqueued when g_dispatcherQueue is set.
ScheduleWindowCreation(attempt) ==

    /\ Alive
    /\ attempt \in timers
    /\ timers' = timers \ {attempt}
    /\ queue' = IF g_dispatcherQueue /= 0
                THEN TryEnqueue(g_dispatcherQueue, WorkItem("create", attempt))
                ELSE queue
    /\ UNCHANGED <<proc, g_lastHRESULT, g_shutdownRequested, g_closeCallback,
                   g_uiThread, g_appThreadStarted, g_appReady, g_dispatcherQueue,
                   g_windowCreationScheduled, g_window, g_windowReady, finished,
                   watchdogStarted, closeCbFired, launched, closedHandler, uiState,
                   nextTid, wd, wdWaited, pc, firstCall, joinTarget, calls, callLimit, winVars,
                   lastCall, callThread, callSeg, initResult, initSeen, joined,
                   teardownRuns, closeCbInvocations, cbAtRequest, bootFailed, windowBy,
                   closedEvents, createFailures, g_eventRing, g_eventHead, g_eventTail,
                   g_eventOverflow, enqVars, pollVars, histVars>>

\* The watchdog's loop (lines 1145-1149): it returns when g_uiThread is not
\* joinable, and sleeps 100 ms otherwise.
WatchdogPoll ==

    /\ Alive
    /\ wd = "run"
    /\ wdWaited < WatchdogPolls
    /\ wd' = IF g_uiThread = 0 THEN "done" ELSE wd
    /\ wdWaited' = IF g_uiThread = 0 THEN wdWaited ELSE wdWaited + 1
    /\ UNCHANGED <<proc, g_lastHRESULT, g_shutdownRequested, g_closeCallback,
                   g_uiThread, g_appThreadStarted, g_appReady, g_dispatcherQueue,
                   g_windowCreationScheduled, g_window, g_windowReady, finished,
                   watchdogStarted, closeCbFired, launched, closedHandler, uiState,
                   queue, nextTid, timers, pc, firstCall, joinTarget, calls, callLimit, winVars,
                   lastCall, callThread, callSeg, initResult, initSeen, joined,
                   teardownRuns, closeCbInvocations, cbAtRequest, bootFailed, windowBy,
                   closedEvents, createFailures, g_eventRing, g_eventHead, g_eventTail,
                   g_eventOverflow, enqVars, pollVars, histVars>>

\* lines 1150-1152: the loop ran out: _exit(0).
WatchdogTimeout ==

    /\ Alive
    /\ wd = "run"
    /\ wdWaited = WatchdogPolls
    /\ wd' = "fired"
    /\ proc' = "exited"
    /\ UNCHANGED <<g_lastHRESULT, g_shutdownRequested, g_closeCallback, g_uiThread,
                   g_appThreadStarted, g_appReady, g_dispatcherQueue,
                   g_windowCreationScheduled, g_window, g_windowReady, finished,
                   watchdogStarted, closeCbFired, launched, closedHandler, uiState,
                   queue, nextTid, timers, wdWaited, pc, firstCall, joinTarget, calls,
                   callLimit, winVars, lastCall, callThread, callSeg, initResult, initSeen,
                   joined, teardownRuns, closeCbInvocations, cbAtRequest, bootFailed,
                   windowBy, closedEvents, createFailures, g_eventRing, g_eventHead,
                   g_eventTail, g_eventOverflow, enqVars, pollVars, histVars>>

(***************************************************************************)
(* The window operations of the command surface, on a calling thread that  *)
(* is not the UI thread, and the closures they marshal to the UI thread.   *)
(***************************************************************************)
\* The arguments the callers pass: create_window's (width, height, title),
\* set_window_title's title, set_window_min_max's minimum client width.
CreateArgs == {<<0, 0, "">>, <<800, 600, "">>, <<640, 0, "W">>, <<640, 480, "W">>}
TitleArgs == {"X"}
MinMaxArgs == {100}

\* The closure of set_window_title (lines 1508-1510) with its copy of the title.
TitleItem(title) == [op |-> "title", n |-> 0, title |-> title]

\* set_window_title (lines 1480-1512): nothing without a window; with one,
\* the closure that sets the title is enqueued to the UI thread.
set_window_title(c, title) ==

    /\ MayCall(c)
    /\ calls' = calls + 1
    /\ earlyTitle' = IF g_window THEN earlyTitle ELSE title
    /\ queue' = IF g_window /\ g_dispatcherQueue /= 0
                THEN TryEnqueue(g_dispatcherQueue, TitleItem(title))
                ELSE queue
    /\ UNCHANGED <<proc, g_lastHRESULT, g_shutdownRequested, g_closeCallback,
                   g_uiThread, g_appThreadStarted, g_appReady, g_dispatcherQueue,
                   g_windowCreationScheduled, g_window, g_windowReady, finished,
                   watchdogStarted, closeCbFired, launched, closedHandler,
                   uiState, nextTid, timers, wd, wdWaited, pc, firstCall,
                   joinTarget, callLimit, ctlVars, lastCall, callThread, callSeg,
                   initResult, initSeen, joined, teardownRuns,
                   closeCbInvocations, cbAtRequest, bootFailed, windowBy,
                   closedEvents, createFailures, g_pendingWindowTitle,
                   g_pendingInitialWidth, g_pendingInitialHeight, g_pendingBGSet,
                   g_minClientW, winTitle, winW, winH, winBG, createLimit, cmdVars,
                   attemptLog, cwCall, g_eventRing, g_eventHead, g_eventTail,
                   g_eventOverflow, enqVars, pollVars, lastOut, lastMore,
                   lastMax, lastOp, polls, enqLog, delivered, batch, batchClean,
                   batchOvf, lastBatch, lastClean, lastOvf>>

\* The closure of lines 1508-1510 on the UI thread.
UIApplyTitle(t) ==

    /\ NextWork(t, "title")
    /\ queue' = [queue EXCEPT ![t] = Tail(@)]
    /\ winTitle' = IF g_window THEN Head(queue[t]).title ELSE winTitle
    /\ UNCHANGED <<proc, g_lastHRESULT, g_shutdownRequested, g_closeCallback,
                   g_uiThread, g_appThreadStarted, g_appReady, g_dispatcherQueue,
                   g_windowCreationScheduled, g_window, g_windowReady, finished,
                   watchdogStarted, closeCbFired, launched, closedHandler,
                   uiState, nextTid, timers, wd, wdWaited, pc, firstCall,
                   joinTarget, calls, callLimit, ctlVars, lastCall, callThread, callSeg,
                   initResult, initSeen, joined, teardownRuns,
                   closeCbInvocations, cbAtRequest, bootFailed, windowBy,
                   closedEvents, createFailures, g_pendingWindowTitle,
                   g_pendingInitialWidth, g_pendingInitialHeight, g_pendingBGSet,
                   g_minClientW, winW, winH, winBG, createLimit, cmdVars, attemptLog,
                   cwCall, earlyTitle, g_eventRing, g_eventHead, g_eventTail,
                   g_eventOverflow, enqVars, pollVars, lastOut, lastMore,
                   lastMax, lastOp, polls, enqLog, delivered, batch, batchClean,
                   batchOvf, lastBatch, lastClean, lastOvf>>

\* set_window_background_color (lines 1584-1711): nothing once shutdown is
\* requested; without a window (the test of line 1588) the pending slot is
\* stored next (lines 1590-1592); with one, the apply closure is enqueued to
\* the UI thread.
set_window_background_color(c) ==

    /\ MayCall(c)
    /\ calls' = calls + 1
    /\ pc' = [pc EXCEPT ![c] = IF ~g_shutdownRequested /\ ~g_window
                                THEN "B_1590"
                                ELSE "idle"]
    /\ queue' = IF ~g_shutdownRequested /\ g_window /\ g_dispatcherQueue /= 0
                THEN TryEnqueue(g_dispatcherQueue, WorkItem("background", 0))
                ELSE queue
    /\ UNCHANGED <<proc, g_lastHRESULT, g_shutdownRequested, g_closeCallback,
                   g_uiThread, g_appThreadStarted, g_appReady, g_dispatcherQueue,
                   g_windowCreationScheduled, g_window, g_windowReady, finished,
                   watchdogStarted, closeCbFired, launched, closedHandler,
                   uiState, nextTid, timers, wd, wdWaited, firstCall,
                   joinTarget, callLimit, ctlVars, lastCall, callThread, callSeg,
                   initResult, initSeen, joined, teardownRuns,
                   closeCbInvocations, cbAtRequest, bootFailed, windowBy,
                   closedEvents, createFailures, g_pendingWindowTitle,
                   g_pendingInitialWidth, g_pendingInitialHeight, g_pendingBGSet,
                   g_minClientW,
                   winTitle, winW, winH, winBG, createLimit, cmdVars, attemptLog, cwCall,
                   earlyTitle, g_eventRing, g_eventHead, g_eventTail,
                   g_eventOverflow, enqVars, pollVars, lastOut, lastMore,
                   lastMax, lastOp, polls, enqLog, delivered, batch, batchClean,
                   batchOvf, lastBatch, lastClean, lastOvf>>

\* set_window_background_color, lines 1590-1592: the colour is stored in
\* g_pendingBGARGB and g_pendingBGSet is set; the call returns.
StorePendingBackground(c) ==

    /\ Alive
    /\ pc[c] = "B_1590"
    /\ g_pendingBGSet' = TRUE
    /\ pc' = [pc EXCEPT ![c] = "idle"]
    /\ UNCHANGED <<proc, globalVars, staticVars, threadVars, firstCall,
                   joinTarget, ghostVars, g_pendingWindowTitle,
                   g_pendingInitialWidth, g_pendingInitialHeight, g_minClientW,
                   windowVars, winHistVars, cmdVars, ctlVars, ringSide>>

\* The apply closure (lines 1596-1701) on the UI thread: nothing once
\* shutdown is requested or without a window.
UIApplyBackground(t) ==

    /\ NextWork(t, "background")
    /\ queue' = [queue EXCEPT ![t] = Tail(@)]
    /\ winBG' = IF g_shutdownRequested \/ ~g_window THEN winBG ELSE TRUE
    /\ UNCHANGED <<proc, g_lastHRESULT, g_shutdownRequested, g_closeCallback,
                   g_uiThread, g_appThreadStarted, g_appReady, g_dispatcherQueue,
                   g_windowCreationScheduled, g_window, g_windowReady, finished,
                   watchdogStarted, closeCbFired, launched, closedHandler,
                   uiState, nextTid, timers, wd, wdWaited, pc, firstCall,
                   joinTarget, calls, callLimit, ctlVars, lastCall, callThread, callSeg,
                   initResult, initSeen, joined, teardownRuns,
                   closeCbInvocations, cbAtRequest, bootFailed, windowBy,
                   closedEvents, createFailures, g_pendingWindowTitle,
                   g_pendingInitialWidth, g_pendingInitialHeight, g_pendingBGSet,
                   g_minClientW, winTitle, winW, winH, createLimit, cmdVars, attemptLog,
                   cwCall, earlyTitle, g_eventRing, g_eventHead, g_eventTail,
                   g_eventOverflow, enqVars, pollVars, lastOut, lastMore,
                   lastMax, lastOp, polls, enqLog, delivered, batch, batchClean,
                   batchOvf, lastBatch, lastClean, lastOvf>>

\* set_window_min_max (lines 1714-1735): the bounds are stored, then the
\* window, when there is one, is asked to re-evaluate its frame at its
\* current size.
set_window_min_max(c, minW) ==

    /\ MayCall(c)
    /\ calls' = calls + 1
    /\ g_minClientW' = minW
    /\ UNCHANGED <<proc, g_lastHRESULT, g_shutdownRequested, g_closeCallback,
                   g_uiThread, g_appThreadStarted, g_appReady, g_dispatcherQueue,
                   g_windowCreationScheduled, g_window, g_windowReady, finished,
                   watchdogStarted, closeCbFired, launched, closedHandler,
                   uiState, queue, nextTid, timers, wd, wdWaited, pc, firstCall,
                   joinTarget, callLimit, ctlVars, lastCall, callThread, callSeg,
                   initResult, initSeen, joined, teardownRuns,
                   closeCbInvocations, cbAtRequest, bootFailed, windowBy,
                   closedEvents, createFailures, g_pendingWindowTitle,
                   g_pendingInitialWidth, g_pendingInitialHeight, g_pendingBGSet,
                   winTitle, winW, winH, winBG, createLimit, cmdVars, attemptLog, cwCall,
                   earlyTitle, g_eventRing, g_eventHead, g_eventTail,
                   g_eventOverflow, enqVars, pollVars, lastOut, lastMore,
                   lastMax, lastOp, polls, enqLog, delivered, batch, batchClean,
                   batchOvf, lastBatch, lastClean, lastOvf>>

(***************************************************************************)
(* The input callback (WinUI3Native.h lines 45-53) and the input handlers  *)
(* of the window's root element (lines 755-802).                           *)
(***************************************************************************)
\* The modifier keys GetKeyState is asked about in ComputeMods.
ModKeys == {"VK_LSHIFT", "VK_RSHIFT", "VK_LCONTROL", "VK_RCONTROL",
            "VK_LMENU", "VK_RMENU", "VK_LWIN", "VK_RWIN"}

\* ComputeMods (lines 418-438) when the keys of the set down are held: one
\* bit for each side-specific modifier key.
ComputeMods(down) ==
      (IF "VK_LSHIFT" \in down THEN 1 ELSE 0)
    + (IF "VK_RSHIFT" \in down THEN 2 ELSE 0)
    + (IF "VK_LCONTROL" \in down THEN 4 ELSE 0)
    + (IF "VK_RCONTROL" \in down THEN 8 ELSE 0)
    + (IF "VK_LMENU" \in down THEN 16 ELSE 0)
    + (IF "VK_RMENU" \in down THEN 32 ELSE 0)
    + (IF "VK_LWIN" \in down THEN 64 ELSE 0)
    + (IF "VK_RWIN" \in down THEN 128 ELSE 0)

\* The low and the high 16 bits of the 32-bit two's complement pattern of
\* the int v.
Lo16(v) == v % 65536
Hi16(v) == (v \div 65536) % 65536

\* The same pattern with the key or button code left unmasked and added on
\* top of the shifted modifiers.
PackCodeUnshifted(mods, code) == mods + (code % 65536)

\* codeWithMods == (mods << 16) | (code & 0xFFFF) (lines 760, 768, 786,
\* 798).  mods is below 256, so the shift stays inside the 32 bits of the
\* int and the two operands of | have no bit in common.
PackCode(mods, code) == (mods * 65536) + (code % 65536)

\* The four 16-bit limbs of a 64-bit word whose upper 32 bits are the
\* pattern of a and whose lower 32 bits are the pattern of b, most
\* significant limb first.
Word64(a, b) == <<Hi16(a), Lo16(a), Hi16(b), Lo16(b)>>

\* packedXY with the two coordinates in each other's half.
PackXYSwapped(x, y) == Word64(x, y)

\* packedXY == ((unsigned long long)(unsigned int)y << 32)
\*             | (unsigned long long)(unsigned int)x (lines 785, 797).
PackXY(x, y) == Word64(y, x)

\* The packedXY of a key event (lines 759, 767) is 0.
ZeroXY == <<0, 0, 0, 0>>

\* The int whose 32-bit pattern has the high limb hi and the low limb lo.
ToInt32(hi, lo) ==
    IF hi >= 32768 THEN ((hi - 65536) * 65536) + lo ELSE (hi * 65536) + lo

\* What the receiver of the callback reads (WinUI3Native.h lines 50-52): the
\* code in the low 16 bits and the modifiers in the high 16 bits of
\* codeWithMods, x in the lower 32 bits and y in the upper 32 bits of
\* packedXY.
UnpackCode(codeWithMods) == Lo16(codeWithMods)
UnpackMods(codeWithMods) == Hi16(codeWithMods)
UnpackX(packedXY) == ToInt32(packedXY[3], packedXY[4])
UnpackY(packedXY) == ToInt32(packedXY[1], packedXY[2])

\* register_input_callback, entered with the callback cb (line 1563); the
\* store of line 1565 comes next.
register_input_callback(c, cb) ==

    /\ MayCall(c)
    /\ calls' = calls + 1
    /\ pc' = [pc EXCEPT ![c] = IF cb THEN "I_set" ELSE "I_clear"]
    /\ UNCHANGED <<proc, globalVars, staticVars, threadVars, firstCall,
                   joinTarget, ghostRest, windowSide, cmdVars, ctlVars, ringSide>>

\* register_input_callback, line 1565: g_inputCallback is stored, with no
\* lock.
RegisterInputStore(c) ==

    /\ Alive
    /\ pc[c] \in {"I_set", "I_clear"}
    /\ g_inputCallback' = (pc[c] = "I_set")
    /\ pc' = [pc EXCEPT ![c] = "idle"]
    /\ UNCHANGED <<proc, globalVars, staticVars, threadVars, firstCall,
                   joinTarget, ghostVars, windowSide, cmdVars, regVars,
                   g_resizeCallback, g_lastPointerButton, mouseVars, ctlHistVars,
                   ringSide>>

\* A handler reads g_inputCallback for the test and again for the call
\* (lines 761, 769, 787, 799) while a calling thread is storing nullptr into
\* it (line 1565), with no synchronisation between the two threads.
InputCallbackRace == g_inputCallback /\ \E c \in Callers : pc[c] = "I_clear"

\* What every input handler does with its values: a registered callback is
\* invoked with kind, codeWithMods, action and packedXY, then the event is
\* enqueued with the unpacked values.  Under InputCallbackRace the second
\* read can find the null just stored: the call through it ends the process
\* before anything is enqueued.
InputHandler(t, kind, code, action, mods, x, y, packedXY, button) ==
    /\ Alive
    /\ uiState[t] = "running"
    /\ g_window
    /\ closedHandler
    /\ windowBy[t]
    /\ Len(enqLog) < MaxInputs
    /\ \E callsNull \in {FALSE, InputCallbackRace} :
         IF callsNull
         THEN /\ proc' = "terminated"
              /\ UNCHANGED <<cbLog, enqLog, ringVars>>
         ELSE /\ cbLog' = IF g_inputCallback
                          THEN Append(cbLog, [from |-> "input",
                                              kind |-> kind,
                                              codeWithMods |-> PackCode(mods, code),
                                              action |-> action,
                                              packedXY |-> packedXY])
                          ELSE cbLog
              /\ enqLog' = Append(enqLog, WinUIEventInternal(kind, code, action,
                                                             mods, x, y, 0, 0))
              /\ RingPush(WinUIEventInternal(kind, code, action, mods, x, y, 0, 0))
              /\ UNCHANGED proc
    /\ g_lastPointerButton' = button
    /\ UNCHANGED <<globalVars, staticVars, threadVars, callerVars, ghostVars,
                   windowSide, cmdVars, regVars, g_resizeCallback,
                   g_inputCallback, released, teardownLog, waitRet, wdArmedFor, enqVars,
                   pollVars, lastOut, lastMore, lastMax, lastOp, polls,
                   delivered, batch, batchClean, batchOvf, lastBatch,
                   lastClean, lastOvf>>

\* The KeyDown (action 1, lines 756-762) and KeyUp (action 2, lines 763-770)
\* handlers on the UI thread for the key vk with the modifier keys of down
\* held.
UIKeyEvent(t, action, vk, down) ==
    /\ InputHandler(t, 1, vk, action, ComputeMods(down), 0, 0, ZeroXY,
                    g_lastPointerButton)
    /\ UNCHANGED mouseVars

\* The button the PointerPressed handler derives from the properties of the
\* point (lines 775-781): the first one of left, right, middle, X1, X2 that
\* is down, 0 when none is.
LowestButton(down) == CHOOSE b \in down : \A o \in down : b <= o

PressedButton(down) == IF down = {} THEN 0 ELSE LowestButton(down)

\* The PointerPressed handler (lines 771-788) when the button goes down (0:
\* a contact with none of the five buttons) at the position <<x, y>>: the
\* button derived from the buttons that are down is reported and remembered
\* in g_lastPointerButton.
UIPointerPressed(t, button, down, x, y) ==
    /\ held' = held \cup ({button} \ {0})
    /\ InputHandler(t, 2, PressedButton(held'), 1, ComputeMods(down), x, y,
                    PackXY(x, y), PressedButton(held'))
    /\ UNCHANGED upLog

\* The PointerReleased handler (lines 789-802) at the position <<x, y>>: the
\* button is the one remembered by the last press, and is forgotten.
UIPointerReleased(t, down, x, y) ==
    /\ InputHandler(t, 2, g_lastPointerButton, 2, ComputeMods(down), x, y,
                    PackXY(x, y), 0)
    /\ \E up \in (IF held = {} THEN {0} ELSE held) :
         /\ held' = held \ {up}
         /\ upLog' = Append(upLog, [released |-> up,
                                    carried |-> g_lastPointerButton])

\* The KeyDown handler (lines 756-762) for the key A with no modifier held.
UIInputEvent(t) == UIKeyEvent(t, 1, 65, {})

\* winui_poll_events (lines 1937-1967) run to its end on a host thread with
\* no EnqueueEvent in between: the tail is advanced past the events copied.
PollDrain(c, max) ==

    /\ Alive
    /\ c \in Callers
    /\ pc[c] = "idle"
    /\ polls < MaxPolls
    /\ polls' = polls + 1
    /\ LET unread == (g_eventHead - g_eventTail + kEventRingSize) % kEventRingSize
           count == IF max < unread THEN max ELSE unread
       IN g_eventTail' = (g_eventTail + count) % kEventRingSize
    /\ UNCHANGED <<proc, g_lastHRESULT, g_shutdownRequested, g_closeCallback,
                   g_uiThread, g_appThreadStarted, g_appReady, g_dispatcherQueue,
                   g_windowCreationScheduled, g_window, g_windowReady, finished,
                   watchdogStarted, closeCbFired, launched, closedHandler,
                   uiState, queue, nextTid, timers, wd, wdWaited, pc, firstCall,
                   joinTarget, calls, callLimit, ctlVars, lastCall, callThread, callSeg,
                   initResult, initSeen, joined, teardownRuns,
                   closeCbInvocations, cbAtRequest, bootFailed, windowBy,
                   closedEvents, createFailures, g_pendingWindowTitle,
                   g_pendingInitialWidth, g_pendingInitialHeight, g_pendingBGSet,
                   g_minClientW, winTitle, winW, winH, winBG, createLimit, cmdVars,
                   attemptLog, cwCall, earlyTitle, g_eventRing, g_eventHead,
                   g_eventOverflow, enqVars, pollVars, lastOut, lastMore,
                   lastMax, lastOp, enqLog, delivered, batch, batchClean,
                   batchOvf, lastBatch, lastClean, lastOvf>>

(***************************************************************************)
(* The value-returning commands on a calling thread that is not the UI     *)
(* thread, and their closures on the UI thread.                            *)
(***************************************************************************)
\* The closure of a command, with the caller whose promise it fulfils and
\* the parent handle it was given.
CmdItem(op, c, parent) == [op |-> op, n |-> 0, caller |-> c, parent |-> parent]

\* The handles passed to the commands: null, the handle of the window, the
\* handles of the controls, a handle that is never in the control registry.
HandleArgs == {0} \cup Handles

\* What try_as finds behind a registered handle (lines 1857-1894, 2059-2092):
\* a stack panel or grid is a Panel; the window and a text box are neither
\* a Panel nor a ContentControl nor a Border.
IsPanel(h) == ctlKind[h] = "panel"

\* create_stack_panel (lines 1969-2001) and create_grid (lines 2003-2040):
\* without a dispatcher queue the null result is returned; else the closure
\* is handed to TryEnqueue, whose answer is not looked at, and the caller
\* waits for the promise (lines 1998, 2037).
CreateContainer(c, op) ==
    /\ MayCall(c)
    /\ calls' = calls + 1
    /\ IF g_dispatcherQueue = 0
       THEN /\ cmdResult' = [cmdResult EXCEPT ![c] = "null"]
            /\ UNCHANGED <<queue, promise, pc>>
       ELSE /\ queue' = TryEnqueue(g_dispatcherQueue, CmdItem(op, c, 0))
            /\ promise' = [promise EXCEPT ![c] = "pending"]
            /\ cmdResult' = [cmdResult EXCEPT ![c] = "none"]
            /\ pc' = [pc EXCEPT ![c] = "P_wait"]
    /\ UNCHANGED <<proc, g_lastHRESULT, g_shutdownRequested, g_closeCallback,
                   g_uiThread, g_appThreadStarted, g_appReady, g_dispatcherQueue,
                   g_windowCreationScheduled, g_window, g_windowReady, finished,
                   watchdogStarted, closeCbFired, launched, closedHandler,
                   uiState, nextTid, timers, wd, wdWaited, firstCall, joinTarget,
                   callLimit, ctlVars, lastCall, callThread, callSeg, initResult,
                   initSeen, joined, teardownRuns, closeCbInvocations,
                   cbAtRequest, bootFailed, windowBy, closedEvents,
                   createFailures, pendingVars, g_minClientW, windowVars,
                   winHistVars, ringVars, enqVars, pollVars, histVars>>

create_stack_panel(c) ==

    CreateContainer(c, "create_stack_panel")

create_grid(c) ==

    CreateContainer(c, "create_grid")

\* The handle of the next control created.
NewHandle == nextCtl + 2

\* The closure of lines 1994-1997 / 2033-2036 on the UI thread: the control
\* is created and put in g_controls (lines 1979, 2018; result stays null
\* when its construction throws) and the caller's promise is set.
UICreateContainer(t) ==

    /\ \/ NextWork(t, "create_stack_panel")
       \/ NextWork(t, "create_grid")
    /\ queue' = [queue EXCEPT ![t] = Tail(@)]
    /\ \E r \in {"handle", "null"} :
          /\ r = "handle" => nextCtl < MaxControls
          /\ cmdResult' = [cmdResult EXCEPT ![Head(queue[t]).caller] = r]
          /\ IF r = "handle"
             THEN /\ g_controls' = g_controls \cup {NewHandle}
                  /\ ctlKind' = [ctlKind EXCEPT ![NewHandle] = "panel"]
                  /\ nextCtl' = nextCtl + 1
             ELSE UNCHANGED <<g_controls, ctlKind, nextCtl>>
    /\ promise' = [promise EXCEPT ![Head(queue[t]).caller] = "set"]
    /\ UNCHANGED <<proc, g_lastHRESULT, g_shutdownRequested, g_closeCallback,
                   g_uiThread, g_appThreadStarted, g_appReady, g_dispatcherQueue,
                   g_windowCreationScheduled, g_window, g_windowReady, finished,
                   watchdogStarted, closeCbFired, launched, closedHandler,
                   uiState, nextTid, timers, wd, wdWaited, pc, firstCall,
                   joinTarget, calls, callLimit, parentOf, callbackVars, ctlHistVars, lastCall, callThread, callSeg,
                   initResult, initSeen, joined, teardownRuns,
                   closeCbInvocations, cbAtRequest, bootFailed, windowBy,
                   closedEvents, createFailures, pendingVars, g_minClientW,
                   windowVars, winHistVars, ringVars, enqVars, pollVars, histVars>>

\* future.wait() returns (lines 1998-2000, 2037-2039).
ContainerReturn(c) ==

    /\ Alive
    /\ pc[c] = "P_wait"
    /\ promise[c] = "set"
    /\ pc' = [pc EXCEPT ![c] = "idle"]
    /\ promise' = [promise EXCEPT ![c] = "none"]
    /\ UNCHANGED <<proc, g_lastHRESULT, g_shutdownRequested, g_closeCallback,
                   g_uiThread, g_appThreadStarted, g_appReady, g_dispatcherQueue,
                   g_windowCreationScheduled, g_window, g_windowReady, finished,
                   watchdogStarted, closeCbFired, launched, closedHandler,
                   uiState, queue, nextTid, timers, wd, wdWaited, firstCall,
                   joinTarget, calls, callLimit, ctlVars, lastCall, callThread, callSeg,
                   initResult, initSeen, joined, teardownRuns,
                   closeCbInvocations, cbAtRequest, bootFailed, windowBy,
                   closedEvents, createFailures, pendingVars, g_minClientW,
                   windowVars, winHistVars, cmdResult, ringVars, enqVars,
                   pollVars, histVars>>

\* create_text_input (lines 1806-1935): null for a null parent or without a
\* dispatcher queue; null when TryEnqueue refuses the closure; else the
\* caller waits in fut.get() (line 1934).
create_text_input(c, parent) ==

    /\ MayCall(c)
    /\ calls' = calls + 1
    /\ IF parent = 0
       THEN /\ g_lastHRESULT' = "E_INVALIDARG"
            /\ cmdResult' = [cmdResult EXCEPT ![c] = "null"]
            /\ UNCHANGED <<queue, promise, pc>>
       ELSE IF g_dispatcherQueue = 0 \/ uiState[g_dispatcherQueue] \notin {"launched", "running"}
            THEN /\ g_lastHRESULT' = "E_FAIL"
                 /\ cmdResult' = [cmdResult EXCEPT ![c] = "null"]
                 /\ UNCHANGED <<queue, promise, pc>>
            ELSE /\ queue' = TryEnqueue(g_dispatcherQueue,
                                        CmdItem("create_text_input", c, parent))
                 /\ promise' = [promise EXCEPT ![c] = "pending"]
                 /\ cmdResult' = [cmdResult EXCEPT ![c] = "none"]
                 /\ pc' = [pc EXCEPT ![c] = "T_wait"]
                 /\ UNCHANGED g_lastHRESULT
    /\ UNCHANGED <<proc, g_shutdownRequested, g_closeCallback, g_uiThread,
                   g_appThreadStarted, g_appReady, g_dispatcherQueue,
                   g_windowCreationScheduled, g_window, g_windowReady, finished,
                   watchdogStarted, closeCbFired, launched, closedHandler,
                   uiState, nextTid, timers, wd, wdWaited, firstCall, joinTarget,
                   callLimit, ctlVars, lastCall, callThread, callSeg, initResult,
                   initSeen, joined, teardownRuns, closeCbInvocations,
                   cbAtRequest, bootFailed, windowBy, closedEvents,
                   createFailures, pendingVars, g_minClientW, windowVars,
                   winHistVars, ringVars, enqVars, pollVars, histVars>>

\* A parent the text box is attached to also when it is the window.
AttachesTextInputToAny(parent) == ctlKind[parent] \in {"panel", "window"}

\* The closure attaches the text box to a parent that is a Panel (line 1856);
\* no registered control is a ContentControl (line 1890).
AttachesTextInput(parent) == IsPanel(parent)

\* The closure op (lines 1823-1920) on the UI thread: the parent is looked up
\* in g_controls (E_INVALIDARG when it is absent); the text box is created
\* and appended to a Panel parent, then put in g_controls with S_OK; a parent
\* that is no Panel and no ContentControl gives E_FAIL and no registry entry
\* (lines 1896-1901); an exception of the construction gives a failure code
\* (lines 1909-1919); the promise is given the handle or null.
UICreateTextInput(t) ==

    /\ NextWork(t, "create_text_input")
    /\ queue' = [queue EXCEPT ![t] = Tail(@)]
    /\ LET parent == Head(queue[t]).parent
           caller == Head(queue[t]).caller
       IN IF parent \notin g_controls
          THEN /\ g_lastHRESULT' = "E_INVALIDARG"
               /\ cmdResult' = [cmdResult EXCEPT ![caller] = "null"]
               /\ UNCHANGED regVars
          ELSE IF ~AttachesTextInput(parent)
          THEN /\ g_lastHRESULT' = "E_FAIL"
               /\ cmdResult' = [cmdResult EXCEPT ![caller] = "null"]
               /\ UNCHANGED regVars
          ELSE \E r \in {"handle", "null"} :
                 /\ r = "handle" => nextCtl < MaxControls
                 /\ cmdResult' = [cmdResult EXCEPT ![caller] = r]
                 /\ IF r = "handle"
                    THEN /\ g_lastHRESULT' = "S_OK"
                         /\ g_controls' = g_controls \cup {NewHandle}
                         /\ ctlKind' = [ctlKind EXCEPT ![NewHandle] = "text"]
                         /\ parentOf' = [parentOf EXCEPT ![NewHandle] = parent]
                         /\ nextCtl' = nextCtl + 1
                    ELSE /\ g_lastHRESULT' = "E_FAIL"
                         /\ UNCHANGED regVars
    /\ promise' = [promise EXCEPT ![Head(queue[t]).caller] = "set"]
    /\ UNCHANGED <<proc, g_shutdownRequested, g_closeCallback, g_uiThread,
                   g_appThreadStarted, g_appReady, g_dispatcherQueue,
                   g_windowCreationScheduled, g_window, g_windowReady, finished,
                   watchdogStarted, closeCbFired, launched, closedHandler,
                   uiState, nextTid, timers, wd, wdWaited, pc, firstCall,
                   joinTarget, calls, callLimit, callbackVars, ctlHistVars, lastCall, callThread, callSeg,
                   initResult, initSeen, joined, teardownRuns,
                   closeCbInvocations, cbAtRequest, bootFailed, windowBy,
                   closedEvents, createFailures, pendingVars, g_minClientW,
                   windowVars, winHistVars, ringVars, enqVars, pollVars, histVars>>

\* fut.get() returns the value (line 1934).
TextInputReturn(c) ==

    /\ Alive
    /\ pc[c] = "T_wait"
    /\ promise[c] = "set"
    /\ pc' = [pc EXCEPT ![c] = "idle"]
    /\ promise' = [promise EXCEPT ![c] = "none"]
    /\ UNCHANGED <<proc, g_lastHRESULT, g_shutdownRequested, g_closeCallback,
                   g_uiThread, g_appThreadStarted, g_appReady, g_dispatcherQueue,
                   g_windowCreationScheduled, g_window, g_windowReady, finished,
                   watchdogStarted, closeCbFired, launched, closedHandler,
                   uiState, queue, nextTid, timers, wd, wdWaited, firstCall,
                   joinTarget, calls, callLimit, ctlVars, lastCall, callThread, callSeg,
                   initResult, initSeen, joined, teardownRuns,
                   closeCbInvocations, cbAtRequest, bootFailed, windowBy,
                   closedEvents, createFailures, pendingVars, g_minClientW,
                   windowVars, winHistVars, cmdResult, ringVars, enqVars,
                   pollVars, histVars>>

\* fut.get() throws std::future_error for a broken promise (line 1934); no
\* handler is in create_text_input, the exception leaves the exported function.
TextInputBroken(c) ==

    /\ Alive
    /\ pc[c] = "T_wait"
    /\ promise[c] = "broken"
    /\ pc' = [pc EXCEPT ![c] = "T_threw"]
    /\ UNCHANGED <<proc, g_lastHRESULT, g_shutdownRequested, g_closeCallback,
                   g_uiThread, g_appThreadStarted, g_appReady, g_dispatcherQueue,
                   g_windowCreationScheduled, g_window, g_windowReady, finished,
                   watchdogStarted, closeCbFired, launched, closedHandler,
                   uiState, queue, nextTid, timers, wd, wdWaited, firstCall,
                   joinTarget, calls, callLimit, ctlVars, lastCall, callThread, callSeg,
                   initResult, initSeen, joined, teardownRuns,
                   closeCbInvocations, cbAtRequest, bootFailed, windowBy,
                   closedEvents, createFailures, pendingVars, g_minClientW,
                   windowVars, winHistVars, promise, cmdResult, ringVars,
                   enqVars, pollVars, histVars>>

(***************************************************************************)
(* Spec: the lifecycle, every interleaving of the callers, the UI threads, *)
(* the timers and the watchdog.                                            *)
(***************************************************************************)
CallerStep(c) ==
    \/ StartAppThread(c)
    \/ WaitForAppReady(c)
    \/ InitCheckLast(c)
    \/ InitFinish(c)
    \/ ShutdownEnter(c)
    \/ ShutdownEnqueueCleanup(c)
    \/ ShutdownArmWatchdog(c)
    \/ ShutdownNudge(c)
    \/ ShutdownJoinBegin(c)
    \/ ShutdownJoinEnd(c)
    \/ ShutdownCleanup(c)
    \/ ShutdownResetFlags(c)
    \/ ShutdownFinished(c)
    \/ ShutdownComplete(c)
    \/ register_close_callback(c)
    \/ create_window(c, 0, 0, "")

UIStep(t) ==
    \/ UIBootstrap(t)
    \/ UIBootstrapFailed(t)
    \/ UIOnLaunched(t)
    \/ UIAppReady(t)
    \/ UICleanupAndExit(t)
    \/ UIExitNudge(t)
    \/ UIAttemptCreateMainWindow(t)
    \/ UIWindowClosed(t)

TimerStep == \E attempt \in timers : ScheduleWindowCreation(attempt)

WatchdogStep == WatchdogPoll \/ WatchdogTimeout

Next ==
    \/ \E c \in AllCallers : CallerStep(c)
    \/ \E t \in Threads : UIStep(t)
    \/ TimerStep
    \/ WatchdogStep

Init == RingInit /\ LifeInit

Spec == Init /\ [][Next]_vars

(***************************************************************************)
(* SpecCore: InitUI, ShutdownUI and register_close_callback calls only,    *)
(* with the UI thread's bootstrap, launch and run loop and the watchdog,   *)
(* for a longer sequence of calls.                                         *)
(***************************************************************************)
CoreCallerStep(c) ==
    \/ StartAppThread(c)
    \/ WaitForAppReady(c)
    \/ InitCheckLast(c)
    \/ InitFinish(c)
    \/ ShutdownEnter(c)
    \/ ShutdownEnqueueCleanup(c)
    \/ ShutdownArmWatchdog(c)
    \/ ShutdownNudge(c)
    \/ ShutdownJoinBegin(c)
    \/ ShutdownJoinEnd(c)
    \/ ShutdownCleanup(c)
    \/ ShutdownResetFlags(c)
    \/ ShutdownFinished(c)
    \/ ShutdownComplete(c)

CoreUIStep(t) ==
    \/ UIBootstrap(t)
    \/ UIBootstrapFailed(t)
    \/ UIOnLaunched(t)
    \/ UIAppReady(t)
    \/ UICleanupAndExit(t)
    \/ UIExitNudge(t)

NextCore ==
    \/ \E c \in Callers : CoreCallerStep(c)
    \/ \E c \in Callers : register_close_callback(c)
    \/ \E t \in Threads : CoreUIStep(t)
    \/ WatchdogStep

InitCore == RingInit /\ LifeInitWith(MaxCoreCalls)

SpecCore == InitCore /\ [][NextCore]_vars

(***************************************************************************)
(* SpecWindow: one lifetime segment without ShutdownUI: InitUI, the window *)
(* operations of the callers, the UI thread with window creation and the   *)
(* marshalled closures, and the timers.                                    *)
(***************************************************************************)
InitUIStep(c) ==
    \/ StartAppThread(c)
    \/ WaitForAppReady(c)
    \/ InitCheckLast(c)
    \/ InitFinish(c)

LaunchStep(t) ==
    \/ UIBootstrap(t)
    \/ UIBootstrapFailed(t)
    \/ UIOnLaunched(t)
    \/ UIAppReady(t)

WindowCallerStep(c) ==
    \/ InitUIStep(c)
    \/ \E a \in CreateArgs : create_window(c, a[1], a[2], a[3])
    \/ \E title \in TitleArgs : set_window_title(c, title)
    \/ set_window_background_color(c)
    \/ StorePendingBackground(c)
    \/ \E minW \in MinMaxArgs : set_window_min_max(c, minW)

WindowUIStep(t) ==
    \/ LaunchStep(t)
    \/ UIAttemptCreateMainWindow(t)
    \/ UIApplyTitle(t)
    \/ UIApplyBackground(t)

NextWindow ==
    \/ \E c \in Callers : WindowCallerStep(c)
    \/ \E t \in Threads : WindowUIStep(t)
    \/ TimerStep

InitWindow == RingInit /\ LifeInitFor(MaxWinCalls, MaxCreateFailures)

SpecWindow == InitWindow /\ [][NextWindow]_vars

(***************************************************************************)
(* SpecRetry: InitUI and create_window without arguments, and window       *)
(* creation attempts that may fail as often as the attempt limit allows.   *)
(***************************************************************************)
NextRetry ==
    \/ \E c \in Callers : InitUIStep(c) \/ create_window(c, 0, 0, "")
    \/ \E t \in Threads : LaunchStep(t) \/ UIAttemptCreateMainWindow(t)
    \/ TimerStep

InitRetry == RingInit /\ LifeInitFor(MaxRetryCalls, kMaxWindowCreateAttempts)

SpecRetry == InitRetry /\ [][NextRetry]_vars

(***************************************************************************)
(* SpecEvents: InitUI, the window with its input and Closed handlers on    *)
(* the UI thread, and a host thread that polls the event ring.             *)
(***************************************************************************)
NextEvents ==
    \/ \E c \in Callers : InitUIStep(c) \/ create_window(c, 0, 0, "")
    \/ \E c \in Callers, max \in 1 .. MaxPolls : PollDrain(c, max)
    \/ \E t \in Threads : \/ LaunchStep(t)
                          \/ UIAttemptCreateMainWindow(t)
                          \/ UIInputEvent(t)
                          \/ UIWindowClosed(t)
    \/ TimerStep

InitEvents == RingInit /\ LifeInitFor(MaxEventCalls, MaxCreateFailures)

SpecEvents == InitEvents /\ [][NextEvents]_vars

(***************************************************************************)
(* SpecCommands: InitUI and ShutdownUI with the window, the fire-and-forget *)
(* window operations and the value-returning commands of the callers, and  *)
(* the UI thread running their closures.                                   *)
(***************************************************************************)
CommandCallerStep(c) ==
    \/ \E title \in TitleArgs : set_window_title(c, title)
    \/ set_window_background_color(c)
    \/ StorePendingBackground(c)
    \/ \E minW \in MinMaxArgs : set_window_min_max(c, minW)
    \/ create_stack_panel(c)
    \/ create_grid(c)
    \/ \E parent \in HandleArgs : create_text_input(c, parent)
    \/ ContainerReturn(c)
    \/ TextInputReturn(c)
    \/ TextInputBroken(c)

CommandUIStep(t) ==
    \/ UIAttemptCreateMainWindow(t)
    \/ UIApplyTitle(t)
    \/ UIApplyBackground(t)
    \/ UICreateContainer(t)
    \/ UICreateTextInput(t)

NextCommands ==
    \/ \E c \in Callers : CoreCallerStep(c) \/ CommandCallerStep(c)
    \/ \E t \in Threads : CoreUIStep(t) \/ CommandUIStep(t)
    \/ TimerStep
    \/ WatchdogStep

InitCommands == RingInit /\ LifeInitFor(MaxCommandCalls, 0)

SpecCommands == InitCommands /\ [][NextCommands]_vars

(***************************************************************************)
(* SpecRing: the ring with enqueue and drain calls that do not overlap     *)
(* (each call runs to its end before the next one starts).                 *)
(* SpecPoll: the UI thread enqueuing while one poller drains, every        *)
(* interleaving of the individual steps.                                   *)
(***************************************************************************)
EnqStep ==
    \/ EnqLoadTail
    \/ EnqCountOverflow
    \/ EnqDropOldest
    \/ EnqWriteSlot
    \/ EnqStoreHead

PollStep ==
    \/ PollLoadHead
    \/ PollCopySlot
    \/ PollStoreTail
    \/ PollReturn

EnqCall == \E ev \in KeyEvents(Len(enqLog) + 1) : EnqLoadHead(ev)

PollCall == \E max \in PollMaxes : PollRejected(max) \/ PollLoadTail(max)

NextRing ==
    \/ (qpc = "idle" /\ EnqCall /\ UNCHANGED lifeVars)
    \/ (qpc = "idle" /\ EnqStep /\ UNCHANGED lifeVars)
    \/ (epc = "idle" /\ PollCall /\ UNCHANGED lifeVars)
    \/ (epc = "idle" /\ PollStep /\ UNCHANGED lifeVars)

SpecRing == Init /\ [][NextRing]_vars

NextPoll ==
    \/ (EnqCall /\ UNCHANGED lifeVars)
    \/ (EnqStep /\ UNCHANGED lifeVars)
    \/ (PollCall /\ UNCHANGED lifeVars)
    \/ (PollStep /\ UNCHANGED lifeVars)

SpecPoll == Init /\ [][NextPoll]_vars

(***************************************************************************)
(* Claims about the UI thread supervisor.                                  *)
(***************************************************************************)
\* ShutdownUI call c has returned, and UI thread t's run loop was running
\* when the call was made.
ShutdownReturned(c, t) ==
    /\ lastCall[c] = "ShutdownUI"
    /\ t /= 0
    /\ callThread[c] = t

\* C1: ShutdownUI calls made while the UI thread is running all return, and
\* the UI-thread teardown sequence (cleanupAndExit) has then run exactly
\* once on that thread.
C1_ExactlyOneTeardown ==
    \A c \in AllCallers, t \in Threads :
        (ShutdownReturned(c, t) /\ firstCall[c]) => teardownRuns[t] = 1

\* C2: in a lifetime segment (InitUI up to a completed ShutdownUI) in which a
\* close callback is registered, the callback is invoked exactly once.
C2_CloseCallbackOnce ==
    \A c \in AllCallers, t \in Threads :
        (ShutdownReturned(c, t) /\ firstCall[c] /\ cbAtRequest)
            => closeCbInvocations = 1

\* A step of a thread that is already inside the library: every step of the
\* model except the host starting a new call.
CallerProgress(c) ==
    \/ WaitForAppReady(c)
    \/ InitCheckLast(c)
    \/ InitFinish(c)
    \/ ShutdownEnqueueCleanup(c)
    \/ ShutdownArmWatchdog(c)
    \/ ShutdownNudge(c)
    \/ ShutdownJoinBegin(c)
    \/ ShutdownJoinEnd(c)
    \/ ShutdownCleanup(c)
    \/ ShutdownResetFlags(c)
    \/ ShutdownFinished(c)
    \/ ShutdownComplete(c)

Progress ==
    \/ \E c \in Callers : CallerProgress(c)
    \/ \E t \in Threads : CoreUIStep(t)
    \/ WatchdogStep

\* C3: every ShutdownUI call eventually returns or the watchdog terminates
\* the process.  As a property of finite runs: while a caller is inside
\* ShutdownUI and the process lives, some thread inside the library can take
\* a step (the caller itself, the UI thread it joins, or the watchdog), so the
\* caller is never left blocked with nothing that will wake it.
C3_NoShutdownCallerStuck ==
    \A c \in Callers :
        (pc[c] \in ShutdownPcs /\ proc = "running") => ENABLED Progress

\* C4: after a completed ShutdownUI a later InitUI starts a fresh UI thread
\* and segment; g_shutdownRequested is clear while that segment runs with no
\* ShutdownUI in progress, and a ShutdownUI called in that segment runs the
\* teardown sequence and joins the new UI thread.
C4_RestartedSegmentShutsDown ==
    /\ \A t \in Threads :
          (t > 1 /\ uiState[t] = "running"
                 /\ \A c \in AllCallers : pc[c] \notin ShutdownPcs)
             => ~g_shutdownRequested
    /\ \A c \in AllCallers, t \in Threads :
          (t > 1 /\ ShutdownReturned(c, t))
             => (teardownRuns[t] = 1 /\ joined[t])

\* C5: all InitUI calls that overlap in the same lifetime segment return the
\* same result code.
C5_SameInitResult ==
    \A c \in AllCallers :
        initResult[c] /= "none" => initSeen[c] \subseteq {initResult[c]}

\* C6: at most one UI thread has been started and not yet joined.
StartedNotJoined == {t \in Threads : uiState[t] /= "none" /\ ~joined[t]}

C6_AtMostOneUIThread == Cardinality(StartedNotJoined) <= 1

\* C7: when every bootstrap candidate fails, the thread never enters the run
\* loop, every InitUI call of that segment returns a failure code, no window
\* is created in that segment, and app-ready stays set for the InitUI calls
\* that still wait in it.
C7_BootstrapFailureIsReported ==
    /\ \A t \in Threads :
          bootFailed[t] => (uiState[t] \in {"bootfailed", "exited"} /\ ~windowBy[t])
    /\ \A c \in AllCallers :
          (initResult[c] /= "none" /\ bootFailed[callSeg[c]]) => FAILED(initResult[c])
    /\ (g_appThreadStarted /\ nextTid > 1 /\ bootFailed[nextTid - 1]) => ~g_window
    /\ \A c \in AllCallers :
          (pc[c] = "I_wait" /\ callSeg[c] \in Threads /\ bootFailed[callSeg[c]]
               /\ uiState[callSeg[c]] = "exited")
             => g_appReady

(***************************************************************************)
(* Claims about the event ring.                                            *)
(***************************************************************************)
\* The last k elements of a sequence.
LastK(s, k) == SubSeq(s, Len(s) - k + 1, Len(s))

\* A drain with max = ring size has just returned, and the calls since the
\* ring was last empty were enqueues only (lastBatch, in enqueue order).
DrainedFromEmpty ==
    /\ lastOp = "poll"
    /\ lastClean
    /\ lastMax = kEventRingSize

\* C8 (as stated): from an empty ring, n <= ring size enqueues and then a
\* drain with max = ring size return exactly those n events, in order, with
\* identical field values.
C8_FifoAtCapacity ==
    (DrainedFromEmpty /\ Len(lastBatch) <= kEventRingSize) => lastOut = lastBatch

\* C8 (amended): from an empty ring, n <= ring size - 1 enqueues and then a
\* drain with max = ring size return exactly those n events, in enqueue
\* order, with identical field values.
C8_FifoBelowCapacity ==
    (DrainedFromEmpty /\ Len(lastBatch) <= kEventRingSize - 1) => lastOut = lastBatch

C8_Witness ==
    /\ DrainedFromEmpty
    /\ Len(lastBatch) = kEventRingSize - 1
    /\ lastOut = lastBatch
    /\ g_eventHead < kEventRingSize - 1

\* C9 (as stated): from an empty ring, ring size + k enqueues (k > 0) and
\* then a drain return exactly ring-size events, the most recent ones, in
\* order, and the overflow counter is at least k.
C9_OverflowKeepsCapacity ==
    (DrainedFromEmpty /\ Len(lastBatch) > kEventRingSize) =>
        /\ Len(lastOut) = kEventRingSize
        /\ lastOut = LastK(lastBatch, kEventRingSize)
        /\ lastOvf >= Len(lastBatch) - kEventRingSize

\* C9 (amended): from an empty ring, ring size + k enqueues (k > 0) and then
\* a drain return exactly ring size - 1 events, the most recent
\* ring size - 1 events pushed, in order, and the overflow counter has
\* risen by k + 1 (so by at least k).
C9_OverflowKeepsNewest ==
    (DrainedFromEmpty /\ Len(lastBatch) > kEventRingSize) =>
        /\ Len(lastOut) = kEventRingSize - 1
        /\ lastOut = LastK(lastBatch, kEventRingSize - 1)
        /\ lastOvf = Len(lastBatch) - kEventRingSize + 1
        /\ lastOvf >= Len(lastBatch) - kEventRingSize

C9_Witness ==
    /\ DrainedFromEmpty
    /\ Len(lastBatch) = kEventRingSize + MaxExtra
    /\ Len(lastOut) = kEventRingSize - 1
    /\ lastOvf = MaxExtra + 1

\* C10: with the UI thread enqueuing while one poller drains, the
\* concatenation of all drain outputs is a subsequence of the enqueue
\* sequence, in enqueue order, and no event is delivered twice.  (The n-th
\* enqueued event has code n, so a subsequence without repetition is a
\* sequence of logged events with strictly increasing codes.)
C10_DeliveredIsSubsequence ==
    /\ \A i \in 1 .. Len(delivered) :
          /\ delivered[i].code \in 1 .. Len(enqLog)
          /\ delivered[i] = enqLog[delivered[i].code]
    /\ \A i, j \in 1 .. Len(delivered) :
          i < j => delivered[i].code < delivered[j].code

\* The slots a drain in progress holds: those it copied since it loaded tail
\* (its new tail is not stored yet) and those it is still going to copy.
PollToCopy ==
    LET unread == (q_head - q_tail + kEventRingSize) % kEventRingSize
        room == q_max - q_count
    IN  IF unread < room THEN unread ELSE room

PollClaimed ==
    IF qpc = "L1948"
    THEN {(q_tail + kEventRingSize - j) % kEventRingSize : j \in 1 .. q_count}
         \cup {(q_tail + i) % kEventRingSize : i \in 0 .. (PollToCopy - 1)}
    ELSE {}

\* C11: the poller copies no slot the producer has written but not yet
\* published by its head store, and the producer writes no slot between the
\* poller loading tail and the poller storing its new tail for that slot,
\* also when the producer takes the ring-full path during the drain.
C11_NoSlotRace ==
    [][ /\ (epc = "L413" /\ epc' = "L414") => e_head \notin PollClaimed
        /\ (qpc = "L1948" /\ q_count' = q_count + 1)
              => ~(epc = "L414" /\ e_head = q_tail) ]_vars

\* The number of unread events: the distance from tail to head.
Unread == (g_eventHead - g_eventTail + kEventRingSize) % kEventRingSize

Min(a, b) == IF a < b THEN a ELSE b

\* C12: a drain with max > 0 and no concurrent enqueue copies
\* count = min(max, unread) events, the count oldest unread ones in enqueue
\* order, advances tail by exactly count, returns count, and sets more to 1
\* exactly when unread events remain after the call.
C12_PollContract ==
    [][ /\ (qpc = "L1948" /\ qpc' = "L1963") =>
              /\ q_count = Min(q_max, Unread)
              /\ q_out = SubSeq(LastK(enqLog, Unread), 1, q_count)
              /\ g_eventTail' = (g_eventTail + q_count) % kEventRingSize
        /\ (qpc = "L1963" /\ qpc' = "idle") =>
              /\ lastOut' = q_out
              /\ Len(lastOut') = q_count
              /\ lastMore' \in {0, 1}
              /\ (lastMore' = 1) <=> (Unread > 0) ]_vars

\* A drain that was cut short by max, after the ring had overflowed.
C12_Witness ==
    /\ lastOp = "poll"
    /\ lastMax = 2
    /\ Len(lastOut) = 2
    /\ lastMore = 1
    /\ g_eventOverflow > 0
    /\ lastOut = SubSeq(LastK(enqLog, Unread + 2), 1, 2)

(***************************************************************************)
(* Claims about who moves the ring's indices, and about window creation.   *)
(***************************************************************************)
\* A step of a running UI thread in one of the handlers that call
\* EnqueueEvent (lines 713, 762-830).
UIEnqueues ==
    \E t \in Threads :
        /\ uiState[t] = "running"
        /\ \/ UIAttemptCreateMainWindow(t)
           \/ UIInputEvent(t)
           \/ UIWindowClosed(t)

\* A step of a host thread that drains the ring.
PollerDrains == \E c \in Callers, max \in 1 .. MaxPolls : PollDrain(c, max)

\* C13: events are enqueued only by the UI thread: a step that writes a slot
\* or advances head is a step of a running UI thread, and a step that
\* advances tail is such a step taken with the ring full, or a poller's drain.
C13_OnlyUIThreadEnqueues ==
    [][ /\ g_eventRing' /= g_eventRing => UIEnqueues
        /\ g_eventHead' /= g_eventHead => UIEnqueues
        /\ g_eventTail' /= g_eventTail =>
              \/ UIEnqueues /\ EnqIsFull(g_eventHead, g_eventTail)
              \/ PollerDrains ]_vars

\* The UI thread has dropped an oldest event on the ring-full path and a
\* poller has drained events.
C13_Witness ==
    /\ g_eventOverflow > 0
    /\ polls > 0
    /\ g_eventTail /= 0
    /\ closedEvents > 0

\* A creation attempt is pending: its timer runs or it is in a run loop's queue.
CreatePending(n) ==
    \/ n \in timers
    \/ \E t \in Threads : \E i \in 1 .. Len(queue[t]) :
          queue[t][i].op = "create" /\ queue[t][i].n = n

NoCreatePending == \A n \in 0 .. kMaxWindowCreateAttempts : ~CreatePending(n)

\* Every creation attempt made so far has failed with E_NOINTERFACE.
AllTransient ==
    /\ attemptLog /= <<>>
    /\ \A i \in 1 .. Len(attemptLog) : attemptLog[i].hr = "E_NOINTERFACE"

\* C14: when every attempt fails with E_NOINTERFACE, the attempts run once
\* each in the order 0, 1, ..., at most 8 of them; while fewer than 8 have run
\* none has recorded "giving up" and the next one is pending; once 8 have run
\* the last has recorded "giving up" and no attempt is pending.
C14_EightAttemptsThenGivingUp ==
    AllTransient =>
        /\ Len(attemptLog) <= kMaxWindowCreateAttempts
        /\ \A i \in 1 .. Len(attemptLog) :
              /\ attemptLog[i].n = i - 1
              /\ attemptLog[i].givingUp <=> (i = kMaxWindowCreateAttempts)
        /\ IF Len(attemptLog) < kMaxWindowCreateAttempts
           THEN CreatePending(Len(attemptLog))
           ELSE NoCreatePending

\* Eight attempts have failed with E_NOINTERFACE and the last gave up.
C14_Witness ==
    /\ AllTransient
    /\ Len(attemptLog) = kMaxWindowCreateAttempts
    /\ attemptLog[kMaxWindowCreateAttempts].n = kMaxWindowCreateAttempts - 1
    /\ attemptLog[kMaxWindowCreateAttempts].givingUp
    /\ g_lastHRESULT = "E_NOINTERFACE"

\* The HRESULTs of a creation failure other than E_NOINTERFACE.
NonTransient == {"E_ACCESSDENIED", "E_FAIL"}

\* C15: the step in which a creation attempt fails with another error than
\* E_NOINTERFACE records that error as the last error and leaves no attempt
\* pending, and no creation attempt runs after such a failure.
C15_OtherFailureIsTerminal ==
    [][ /\ (/\ attemptLog' /= attemptLog
            /\ attemptLog'[Len(attemptLog')].hr \in NonTransient)
              => /\ g_lastHRESULT' = attemptLog'[Len(attemptLog')].hr
                 /\ NoCreatePending'
        /\ (/\ attemptLog /= <<>>
            /\ attemptLog[Len(attemptLog)].hr \in NonTransient)
              => /\ attemptLog' = attemptLog
                 /\ NoCreatePending' ]_vars

\* An attempt after two transient failures has failed with E_ACCESSDENIED.
C15_Witness ==
    /\ Len(attemptLog) = 3
    /\ attemptLog[3].hr = "E_ACCESSDENIED"
    /\ attemptLog[3].n = 2
    /\ g_lastHRESULT = "E_ACCESSDENIED"

\* C16: a window created after set_window_title("X") was called without a
\* window (and no title was passed to create_window) and after create_window
\* requested the size (800, 600) has, when its creation completes, the title
\* "X" and the client size (800, 600).
C16_PendingValuesApplied ==
    [][ (/\ ~g_window
         /\ g_window'
         /\ g_windowReady'
         /\ earlyTitle = "X"
         /\ g_pendingWindowTitle = ""
         /\ g_pendingInitialWidth = 800
         /\ g_pendingInitialHeight = 600)
           => /\ winTitle' = "X"
              /\ winW' = 800
              /\ winH' = 600 ]_vars

\* A step that is a call of create_window.
CreateWindowStep ==
    \E c \in Callers, a \in CreateArgs : create_window(c, a[1], a[2], a[3])

\* The creation attempts that have produced a ready window.
WindowsCreated == {i \in 1 .. Len(attemptLog) : attemptLog[i].hr = "S_OK"}

LaunchedWithoutFailure ==
    /\ \E t \in Threads : uiState[t] = "running" /\ ~bootFailed[t]
    /\ \A i \in 1 .. Len(attemptLog) : attemptLog[i].hr \in {"S_OK", "none"}

\* C18: when the bootstrap succeeds and no attempt fails, then whatever the
\* order of create_window, InitUI and the launch, attempt 0 is the only
\* attempt and runs at most once, and once the run loop is running the window
\* is ready or attempt 0 is still pending; a create_window that returned null
\* has left creation scheduled.
C18_WindowGetsCreated ==
    /\ LaunchedWithoutFailure =>
          /\ \A i \in 1 .. Len(attemptLog) : attemptLog[i].n = 0 /\ i = 1
          /\ g_windowReady \/ CreatePending(0)
    /\ cwCall.ret = "null" => g_windowCreationScheduled

(***************************************************************************)
(* Claims about the commands marshalled to the UI thread.                  *)
(***************************************************************************)
\* The closure of caller c's command is queued in a run loop that has not
\* ended.
ClosureQueued(c) ==
    \E t \in Threads :
        /\ uiState[t] \in {"launched", "running", "hung"}
        /\ \E i \in 1 .. Len(queue[t]) :
              /\ queue[t][i].op \in {"create_stack_panel", "create_grid",
                                     "create_text_input"}
              /\ queue[t][i].caller = c

\* C19: a caller waiting in a value-returning command can still be answered
\* (its promise is set, or its closure is queued in a live run loop), and no
\* command ends otherwise than by returning to its caller.
C19_CommandReturns ==
    Alive =>
        \A c \in Callers :
            /\ pc[c] \in {"P_wait", "T_wait"} => promise[c] = "set" \/ ClosureQueued(c)
            /\ pc[c] /= "T_threw"

\* A step of set_window_title, set_window_background_color or
\* set_window_min_max, or of one of the closures they marshal.
FireAndForgetStep ==
    \/ \E c \in Callers, title \in TitleArgs : set_window_title(c, title)
    \/ \E c \in Callers : set_window_background_color(c)
    \/ \E c \in Callers : StorePendingBackground(c)
    \/ \E c \in Callers, minW \in MinMaxArgs : set_window_min_max(c, minW)
    \/ \E t \in Threads : UIApplyTitle(t) \/ UIApplyBackground(t)

\* C20: once shutdown is requested, a step of a fire-and-forget operation
\* changes neither the window nor the stored min/max bounds nor a pending slot.
C20_SkippedAfterShutdown ==
    [][ (g_shutdownRequested /\ FireAndForgetStep)
           => UNCHANGED <<windowVars, g_minClientW, pendingVars>> ]_vars

(***************************************************************************)
(* The close callback and the Closed event.                                *)
(***************************************************************************)
\* C26: when the main window's Closed event fires while a close callback is
\* registered, the callback is invoked in the handler itself, before the
\* window_closed event is enqueued and before application exit is requested.
C26_CloseCallbackAtClosed ==
    [][(closedEvents' > closedEvents /\ g_closeCallback)
           => closeCbInvocations' > closeCbInvocations]_vars

(***************************************************************************)
(* The control tree commands on a calling thread that is not the UI        *)
(* thread, their closures on the UI thread, and get_runtime_state.         *)
(***************************************************************************)

\* The closure of add_child with the two handles it captured (line 2046).
AddItem(parent, child) ==
    [op |-> "add_child", n |-> 0, parent |-> parent, child |-> child]

\* The closure of release_control with the handle it captured (line 2114).
ReleaseItem(handle) == [op |-> "release_control", n |-> 0, handle |-> handle]

\* add_child (lines 2042-2106): nothing for a null parent or child; the
\* closure is handed to TryEnqueue when there is a dispatcher queue; no
\* result is recorded.
add_child(c, parent, child) ==

    /\ MayCall(c)
    /\ calls' = calls + 1
    /\ queue' = IF parent /= 0 /\ child /= 0 /\ g_dispatcherQueue /= 0
                THEN TryEnqueue(g_dispatcherQueue, AddItem(parent, child))
                ELSE queue
    /\ UNCHANGED <<proc, globalVars, staticVars, threadRest, callerVars,
                   ghostRest, windowSide, cmdVars, ctlVars, ringSide>>

\* Append of lines 2059-2071 succeeds for a Panel parent and a child that is
\* in no tree yet and does not hold the parent; otherwise the platform
\* throws, or the parent is no Panel, and the closure attaches nothing
\* (the catch blocks of lines 2073-2101 are empty).
Attachable(parent, child) ==
    /\ IsPanel(parent)
    /\ parentOf[child] = 0
    /\ child /= parent
    /\ parentOf[parent] /= child

\* The closure add (lines 2046-2101) on the UI thread: both handles are
\* looked up in g_controls; the child is attached to a Panel parent; in every
\* other case nothing is done and nothing is recorded.
UIAddChild(t) ==

    /\ NextWork(t, "add_child")
    /\ queue' = [queue EXCEPT ![t] = Tail(@)]
    /\ LET parent == Head(queue[t]).parent
           child == Head(queue[t]).child
       IN parentOf' = IF /\ parent \in g_controls
                         /\ child \in g_controls
                         /\ Attachable(parent, child)
                      THEN [parentOf EXCEPT ![child] = parent]
                      ELSE parentOf
    /\ UNCHANGED <<proc, globalVars, staticVars, threadRest, callerVars, calls,
                   ghostRest, windowSide, cmdVars, g_controls, ctlKind, nextCtl,
                   callbackVars, ctlHistVars, ringSide>>

\* release_control (lines 2109-2239): nothing for a null handle; without a
\* dispatcher queue the release is skipped (lines 2227-2231); else the closure
\* is handed to TryEnqueue, a refusal skips the release (lines 2233-2237).
\* `released` records the handles that were registered when the function
\* was called with them.
release_control(c, handle) ==

    /\ MayCall(c)
    /\ calls' = calls + 1
    /\ queue' = IF handle /= 0 /\ g_dispatcherQueue /= 0
                THEN TryEnqueue(g_dispatcherQueue, ReleaseItem(handle))
                ELSE queue
    /\ released' = IF handle \in g_controls THEN released \cup {handle} ELSE released
    /\ UNCHANGED <<proc, globalVars, staticVars, threadRest, callerVars,
                   ghostRest, windowSide, cmdVars, regVars, callbackVars, cbLog,
                   teardownLog, waitRet, wdArmedFor, ringSide>>

\* uiRelease detaches the element from its parent unless shutdown has been
\* requested (lines 2120-2129).
ReleaseDetaches == ~g_shutdownRequested

\* The closure uiRelease (lines 2114-2218) on the UI thread, under
\* g_controlsMutex for the map: the handle's entry is erased when there is
\* one; unless shutdown has been requested, the element is then removed from
\* its parent when that is a Panel (lines 2150-2174).
UIRelease(t) ==

    /\ NextWork(t, "release_control")
    /\ queue' = [queue EXCEPT ![t] = Tail(@)]
    /\ LET handle == Head(queue[t]).handle
       IN /\ g_controls' = g_controls \ {handle}
          /\ parentOf' = IF /\ ReleaseDetaches
                            /\ handle \in g_controls
                            /\ parentOf[handle] /= 0
                            /\ IsPanel(parentOf[handle])
                         THEN [parentOf EXCEPT ![handle] = 0]
                         ELSE parentOf
    /\ UNCHANGED <<proc, globalVars, staticVars, threadRest, callerVars, calls,
                   ghostRest, windowSide, cmdVars, ctlKind, nextCtl, callbackVars,
                   ctlHistVars, ringSide>>

\* get_runtime_state (lines 1441-1471): g_windowReady is read under
\* g_windowReadyMutex, then g_shutdownRequested and the other flags.
get_runtime_state(c) ==

    /\ MayCall(c)
    /\ calls' = calls + 1
    /\ pc' = [pc EXCEPT ![c] = "G_1472"]
    /\ UNCHANGED <<proc, globalVars, staticVars, threadVars, firstCall,
                   joinTarget, ghostRest, windowSide, cmdVars, ctlVars, ringSide>>

\* get_runtime_state, lines 1472-1477: g_controls.size() is read without
\* g_controlsMutex and the call returns.
RuntimeStateReadControls(c) ==

    /\ Alive
    /\ pc[c] = "G_1472"
    /\ pc' = [pc EXCEPT ![c] = "idle"]
    /\ UNCHANGED <<proc, globalVars, staticVars, threadVars, firstCall,
                   joinTarget, ghostVars, windowSide, cmdVars, ctlVars, ringSide>>

(***************************************************************************)
(* SpecControls: InitUI, ShutdownUI, the control tree commands and         *)
(* get_runtime_state from two calling threads, with the UI thread's run    *)
(* loop, the timers and the watchdog; no window creation failure.          *)
(***************************************************************************)
\* The handles given to the control tree commands: the two controls and the
\* handle that is never registered.
ControlArgs == (Handles \ {WindowHandle})

\* The (parent, child) pairs given to add_child.
ChildArgs == {<<2, 3>>, <<3, 2>>}

ControlCallerStep(c) ==
    \/ create_stack_panel(c)
    \/ \E parent \in ControlArgs : create_text_input(c, parent)
    \/ ContainerReturn(c)
    \/ TextInputReturn(c)
    \/ TextInputBroken(c)
    \/ \E a \in ChildArgs : add_child(c, a[1], a[2])
    \/ \E handle \in ControlArgs : release_control(c, handle)
    \/ get_runtime_state(c)
    \/ RuntimeStateReadControls(c)

ControlUIStep(t) ==
    \/ UIAttemptCreateMainWindow(t)
    \/ UICreateContainer(t)
    \/ UICreateTextInput(t)
    \/ UIAddChild(t)
    \/ UIRelease(t)

NextControls ==
    \/ \E c \in Callers : CoreCallerStep(c) \/ ControlCallerStep(c)
    \/ \E t \in Threads : CoreUIStep(t) \/ ControlUIStep(t)
    \/ TimerStep
    \/ WatchdogStep

InitControls == RingInit /\ LifeInitFor(MaxControlCalls, 0)

SpecControls == InitControls /\ [][NextControls]_vars

(***************************************************************************)
(* SpecTree: one calling thread builds and releases a control tree over a  *)
(* longer sequence of calls, with InitUI and ShutdownUI.                   *)
(***************************************************************************)
\* With one calling thread no second ShutdownUI call overlaps the first: the
\* nudge is never enqueued and no closure's promise is broken.
TreeLifeStep(c) ==
    \/ InitUIStep(c)
    \/ ShutdownEnter(c)
    \/ ShutdownEnqueueCleanup(c)
    \/ ShutdownArmWatchdog(c)
    \/ ShutdownJoinBegin(c)
    \/ ShutdownJoinEnd(c)
    \/ ShutdownCleanup(c)
    \/ ShutdownResetFlags(c)
    \/ ShutdownFinished(c)
    \/ ShutdownComplete(c)

TreeCommandStep(c) ==
    \/ create_stack_panel(c)
    \/ \E parent \in ControlArgs : create_text_input(c, parent)
    \/ ContainerReturn(c)
    \/ TextInputReturn(c)
    \/ \E a \in ChildArgs : add_child(c, a[1], a[2])
    \/ \E handle \in ControlArgs : release_control(c, handle)

NextTree ==
    \/ TreeLifeStep("c1") \/ TreeCommandStep("c1")
    \/ \E t \in Threads : LaunchStep(t) \/ UICleanupAndExit(t) \/ ControlUIStep(t)
    \/ TimerStep
    \/ WatchdogStep

InitTree == RingInit /\ LifeInitFor(MaxTreeCalls, 0)

SpecTree == InitTree /\ [][NextTree]_vars

(***************************************************************************)
(* SpecRelease: InitUI, ShutdownUI, create_stack_panel and release_control *)
(* of the first panel, from two calling threads, in the runs where the     *)
(* timer thread of the window creation has not run yet.                    *)
(***************************************************************************)
ReleaseCallerStep(c) ==
    \/ create_stack_panel(c)
    \/ ContainerReturn(c)
    \/ release_control(c, WindowHandle + 1)

NextRelease ==
    \/ \E c \in Callers : CoreCallerStep(c) \/ ReleaseCallerStep(c)
    \/ \E t \in Threads : CoreUIStep(t) \/ UICreateContainer(t) \/ UIRelease(t)
    \/ WatchdogStep

InitRelease == RingInit /\ LifeInitFor(MaxReleaseCalls, 0)

SpecRelease == InitRelease /\ [][NextRelease]_vars

(***************************************************************************)
(* Threads and the GUI elements, the Control Registry and its mutex.       *)
(***************************************************************************)
\* The GUI elements: the window (its existence, title, size, background and
\* Closed handler) and the parent of every control.
GuiElements == <<g_window, windowVars, closedHandler, parentOf>>

\* A step of the UI thread t.
AnyUIStep(t) ==
    \/ CoreUIStep(t)
    \/ CommandUIStep(t)
    \/ ControlUIStep(t)
    \/ UIWindowClosed(t)
    \/ UIInputEvent(t)

\* C21: every step that changes a GUI element (the window's title, content,
\* size, handlers, its release, a child's attachment) is a step of the UI
\* thread; no exported function and no part of ShutdownUI changes one on the
\* calling thread.
C21_GuiMutationOnUIThread ==
    [][GuiElements' /= GuiElements => \E t \in Threads : AnyUIStep(t)]_vars

\* C22: every step that inserts into, erases from or clears the Control
\* Registry is a step of the UI thread, the clearing during shutdown and the
\* releases requested from other threads included.
C22_RegistryMutationOnUIThread ==
    [][g_controls' /= g_controls => \E t \in Threads : AnyUIStep(t)]_vars

\* The registry access a calling thread c performs next: the size read of
\* get_runtime_state (line 1472), the clear of ShutdownUI (line 1284); neither
\* takes g_controlsMutex.
CallerReadsRegistry(c) == pc[c] = "G_1472"
CallerWritesRegistry(c) == pc[c] = "S_1196"

\* The closures that read g_controls (add_child: find, lines 2050-2052) and
\* those that write it: AttemptCreateMainWindow (insert, line 833),
\* the create closures (insert, lines 1904, 1979, 2018), cleanupAndExit
\* (clear, line 1116), uiRelease (erase, lines 2122-2141).
RegistryReaders == {"add_child"}
RegistryWriters == {"create", "create_stack_panel", "create_grid",
                    "create_text_input", "cleanupAndExit", "release_control"}

\* Only uiRelease takes g_controlsMutex (lines 2122, 2133).
HoldsControlsMutex(op) == op = "release_control"

UIReadsRegistry(t) == \E op \in RegistryReaders : NextWork(t, op)
UIWritesRegistry(t) == \E op \in RegistryWriters : NextWork(t, op)

\* Two threads are about to access the map at the same time, one of them
\* writing, and not both under the mutex (the calling thread never holds it).
RegistryRace(c, t) ==
    \/ CallerReadsRegistry(c) /\ UIWritesRegistry(t)
    \/ CallerWritesRegistry(c) /\ (UIWritesRegistry(t) \/ UIReadsRegistry(t))

\* C23: every access of the registry map is made under the registry mutex,
\* so no two threads ever access the map at the same time.
C23_RegistryAccessIsExclusive ==
    \A c \in AllCallers : \A t \in Threads : ~RegistryRace(c, t)

(***************************************************************************)
(* release_control and add_child.                                          *)
(***************************************************************************)
\* The uiRelease closure of handle h is still queued on a UI thread, or a
\* UI thread is stuck in its teardown and runs no closure any more.
ReleasePending(h) ==
    \/ \E t \in Threads : \E i \in 1 .. Len(queue[t]) :
          /\ queue[t][i].op = "release_control"
          /\ queue[t][i].handle = h
    \/ \E t \in Threads : uiState[t] = "hung"

\* What one run of the uiRelease closure for handle h does to the registry
\* and the tree: h is absent afterwards; with shutdown requested the tree is
\* left alone; otherwise a registered h is also detached from its parent; an
\* unknown h changes nothing.
ReleaseEffect(h) ==
    /\ g_controls' = g_controls \ {h}
    /\ g_shutdownRequested => parentOf' = parentOf
    /\ (~g_shutdownRequested /\ h \in g_controls) =>
           parentOf' = [parentOf EXCEPT ![h] = 0]
    /\ h \notin g_controls => UNCHANGED <<g_controls, parentOf>>

\* C24: release_control(h) runs its work on the UI thread and leaves h absent
\* from the registry: once the function has been called with a registered h
\* and no closure for h is queued any more, h is not registered; the closure only erases the
\* mapping when shutdown has been requested, also detaches h from its parent
\* otherwise, and changes nothing for an unknown handle; the calling thread
\* itself changes neither the registry nor the tree.
C24_ReleaseLeavesHandleAbsent ==
    [][/\ \A h \in released' : ReleasePending(h)' \/ h \notin g_controls'
       /\ \A t \in Threads :
             UIRelease(t) => ReleaseEffect(Head(queue[t]).handle)
       /\ \A c \in Callers : \A h \in Handles :
             release_control(c, h) => UNCHANGED <<g_controls, parentOf>>]_vars

\* The closure at the head of t's queue attaches to a registered parent that
\* is neither a Panel nor a ContentControl nor a Border.
IncompatibleParent(t) ==
    /\ Head(queue[t]).parent \in g_controls
    /\ ~IsPanel(Head(queue[t]).parent)

\* C25: attaching a control to a parent of incompatible type, by add_child or
\* by create_text_input, leaves the registry and the element tree unchanged
\* and is reported through the last-result code.
C25_IncompatibleParentReported ==
    [][\A t \in Threads :
          /\ (UICreateTextInput(t) /\ IncompatibleParent(t))
                => (UNCHANGED <<g_controls, parentOf>> /\ g_lastHRESULT' /= "S_OK")
          /\ (UIAddChild(t) /\ IncompatibleParent(t)
                            /\ Head(queue[t]).child \in g_controls)
                => (UNCHANGED <<g_controls, parentOf>> /\ g_lastHRESULT' /= "S_OK")]_vars

(***************************************************************************)
(* The teardown closure.                                                   *)
(***************************************************************************)
\* The order of the teardown steps.
TeardownOrder ==
    <<"handlers", "callbacks", "content", "overlay", "registry", "exit">>

\* The position of a step in TeardownOrder.
StepIndex(step) == CHOOSE i \in 1 .. Len(TeardownOrder) : TeardownOrder[i] = step

\* The teardown steps taken by the current step of the model.
TeardownRun == SubSeq(teardownLog', Len(teardownLog) + 1, Len(teardownLog'))

\* C29: the teardown steps run on the UI thread in the order: detach the
\* window's handlers, clear the callback pointers, clear the window content,
\* release the overlay elements, clear the Control Registry, exit the
\* application; application exit is never requested before the registry has
\* been cleared.
C29_TeardownOrder ==
    [][teardownLog' /= teardownLog =>
          /\ \E t \in Threads : AnyUIStep(t)
          /\ \A i, j \in 1 .. Len(TeardownRun) :
                i < j => StepIndex(TeardownRun[i]) < StepIndex(TeardownRun[j])
          /\ \A i \in 1 .. Len(TeardownRun) :
                TeardownRun[i] = "exit" =>
                    /\ \E j \in 1 .. (i - 1) : TeardownRun[j] = "registry"
                    /\ g_controls' = {}]_vars

(***************************************************************************)
(* wait_for_window_ready (lines 1425-1439).                                *)
(***************************************************************************)
\* A normalisation that keeps a timeout of 0.
EffectiveTimeoutKeepsZero(timeoutMs) == IF timeoutMs < 0 THEN 5000 ELSE timeoutMs

\* Lines 1427-1428: a timeout that is not positive is replaced by 5000 ms.
EffectiveTimeout(timeoutMs) == IF timeoutMs <= 0 THEN 5000 ELSE timeoutMs

\* The predicate tested under g_windowReadyMutex (lines 1429, 1432, 1438).
WindowIsReady == g_windowReady /\ g_window

\* wait_for_window_ready, lines 1427-1431: the timeout is normalised, the
\* mutex taken; 1 is returned at once when the window is ready and exists;
\* otherwise the deadline is computed and the caller blocks in wait_until
\* (line 1434), which releases the mutex.
wait_for_window_ready(c, timeoutMs) ==

    /\ MayCall(c)
    /\ calls' = calls + 1
    /\ waitRet' = [waitRet EXCEPT ![c] =
                      [timeoutMs |-> timeoutMs,
                       deadline |-> EffectiveTimeout(timeoutMs),
                       ret |-> IF WindowIsReady THEN 1 ELSE -1]]
    /\ pc' = IF WindowIsReady THEN pc ELSE [pc EXCEPT ![c] = "W_blocked"]
    /\ UNCHANGED <<proc, globalVars, staticVars, threadVars, firstCall,
                   joinTarget, ghostRest, windowSide, cmdVars, regVars,
                   callbackVars, released, cbLog, teardownLog, wdArmedFor,
                   ringSide>>

\* Lines 1432-1438 after notify_all woke the caller: the loop tests the
\* predicate again; the caller blocks again when it does not hold, else the
\* loop ends and the value of the predicate is returned.
WaitWoken(c) ==

    /\ Alive
    /\ pc[c] = "W_woken"
    /\ pc' = [pc EXCEPT ![c] = IF WindowIsReady THEN "idle" ELSE "W_blocked"]
    /\ waitRet' = IF WindowIsReady
                  THEN [waitRet EXCEPT ![c].ret = 1]
                  ELSE waitRet
    /\ UNCHANGED <<proc, globalVars, staticVars, threadVars, firstCall,
                   joinTarget, ghostVars, windowSide, cmdVars, regVars,
                   callbackVars, released, cbLog, teardownLog, wdArmedFor,
                   ringSide>>

\* Lines 1434-1438 at the deadline: wait_until returns timeout, the loop is
\* left and the value of the predicate is returned.
WaitTimeout(c) ==

    /\ Alive
    /\ pc[c] \in {"W_blocked", "W_woken"}
    /\ pc' = [pc EXCEPT ![c] = "idle"]
    /\ waitRet' = [waitRet EXCEPT ![c].ret = IF WindowIsReady THEN 1 ELSE 0]
    /\ UNCHANGED <<proc, globalVars, staticVars, threadVars, firstCall,
                   joinTarget, ghostVars, windowSide, cmdVars, regVars,
                   callbackVars, released, cbLog, teardownLog, wdArmedFor,
                   ringSide>>

(***************************************************************************)
(* SpecWait: one thread calls InitUI and ShutdownUI, another one           *)
(* wait_for_window_ready, with window creation and its failures.           *)
(***************************************************************************)
\* The timeouts given to wait_for_window_ready.
WaitArgs == {-1, 0, 250}

WaitCallerStep(c) ==
    \/ \E timeoutMs \in WaitArgs : wait_for_window_ready(c, timeoutMs)
    \/ WaitWoken(c)
    \/ WaitTimeout(c)

NextWait ==
    \/ TreeLifeStep("c1")
    \/ WaitCallerStep("c2")
    \/ \E t \in Threads : LaunchStep(t) \/ UICleanupAndExit(t)
                                         \/ UIAttemptCreateMainWindow(t)
    \/ TimerStep
    \/ WatchdogStep

InitWait == RingInit /\ LifeInitFor(MaxWaitCalls, MaxCreateFailures)

SpecWait == InitWait /\ [][NextWait]_vars

\* A caller blocked in wait_until that no notify_all has woken.
BlockedUnnotified(c) == pc[c] = "W_blocked"

\* The step is a run of AttemptCreateMainWindow that created the window and
\* made it ready (lines 718-722).
WindowBecomesReady ==
    /\ attemptLog' /= attemptLog
    /\ attemptLog'[Len(attemptLog')].hr = "S_OK"

\* The step is a return of wait_for_window_ready to caller c: from the wait,
\* or at once from the call.
WaitReturns(c) ==
    /\ pc'[c] = "idle"
    /\ \/ pc[c] \in {"W_blocked", "W_woken"}
       \/ pc[c] = "idle" /\ waitRet'[c] /= waitRet[c]

\* C28: wait_for_window_ready always returns 0 or 1; it returns 1 only if the
\* window is ready and exists at the return; no caller stays blocked when
\* the window becomes ready, and a woken caller that finds the window ready
\* returns 1; a timeout that is not positive is waited for as 5000 ms.
C28_WaitForWindowReady ==
    [][\A c \in Callers :
          /\ WaitReturns(c)
                => /\ waitRet'[c].ret \in {0, 1}
                   /\ (waitRet'[c].ret = 1) <=> WindowIsReady'
          /\ WindowBecomesReady => (WindowIsReady' /\ ~BlockedUnnotified(c)')
          /\ (pc[c] = "W_woken" /\ WindowIsReady /\ pc'[c] /= pc[c])
                => (pc'[c] = "idle" /\ waitRet'[c].ret = 1)
          /\ (waitRet'[c] /= NoWait /\ waitRet'[c].timeoutMs <= 0)
                => (waitRet'[c].deadline = 5000)
          /\ (waitRet'[c].timeoutMs > 0)
                => (waitRet'[c].deadline = waitRet'[c].timeoutMs)]_vars

\* A caller that gave a timeout that is not positive and blocked has been
\* woken by the creation of the window and is about to return 1.
C28_Witness ==
    \E c \in Callers :
        /\ pc[c] = "W_woken"
        /\ WindowIsReady
        /\ waitRet[c].timeoutMs <= 0
        /\ waitRet[c].deadline = 5000

(***************************************************************************)
(* The resize callback and the SizeChanged handler (lines 820-830).        *)
(***************************************************************************)
\* Sizes are written in quarters of a unit, as naturals below 2^20: every
\* such size is a float, and a double, exactly.
RECURSIVE Pow2(_)
Pow2(n) == IF n = 0 THEN 1 ELSE 2 * Pow2(n - 1)

\* The L with 2^L <= q < 2^(L+1), for q > 0.
Log2Floor(q) == CHOOSE L \in 0 .. 19 : Pow2(L) <= q /\ q < Pow2(L + 1)

\* The bits of the double w taken by *reinterpret_cast<uint64_t*>(&w) (lines
\* 825-826), as the two 32-bit words <<high, low>>: sign 0, the exponent
\* biased by 1023 in bits 62..52, the fraction in bits 51..0.
DoubleBits(q) ==
    IF q = 0 THEN <<0, 0>>
    ELSE LET L == Log2Floor(q)
         IN <<(L - 2 + 1023) * Pow2(20) + (q - Pow2(L)) * Pow2(20 - L), 0>>

\* The size a receiver of the callback reads from the two words
\* (math.Float64frombits), in quarters of a unit.
BitsToDouble(bits) ==
    IF bits = <<0, 0>> THEN 0
    ELSE LET e == (bits[1] \div Pow2(20)) - 1023
             frac == bits[1] % Pow2(20)
         IN (Pow2(20) + frac) \div Pow2(18 - e)

\* register_resize_callback, entered with the callback cb (line 1539); the
\* store of line 1541 comes next.
register_resize_callback(c, cb) ==

    /\ MayCall(c)
    /\ calls' = calls + 1
    /\ pc' = [pc EXCEPT ![c] = IF cb THEN "R_set" ELSE "R_clear"]
    /\ UNCHANGED <<proc, globalVars, staticVars, threadVars, firstCall,
                   joinTarget, ghostRest, windowSide, cmdVars, ctlVars, ringSide>>

\* register_resize_callback, lines 1541-1559: g_resizeCallback is stored, with
\* no lock; a non-null callback is invoked on the calling thread with the
\* bits of the window's size when there is a window.
RegisterResizeStore(c) ==

    /\ Alive
    /\ pc[c] \in {"R_set", "R_clear"}
    /\ g_resizeCallback' = (pc[c] = "R_set")
    /\ cbLog' = IF pc[c] = "R_set" /\ g_window
                THEN Append(cbLog, [from |-> "register",
                                    a |-> DoubleBits(4 * winW),
                                    b |-> DoubleBits(4 * winH)])
                ELSE cbLog
    /\ pc' = [pc EXCEPT ![c] = "idle"]
    /\ UNCHANGED <<proc, globalVars, staticVars, threadVars, firstCall,
                   joinTarget, ghostVars, windowSide, cmdVars, regVars,
                   g_inputCallback, g_lastPointerButton, mouseVars, released, teardownLog,
                   waitRet, wdArmedFor, ringSide>>

\* The handler reads g_resizeCallback at line 822 and again at line 827 while
\* a calling thread is storing nullptr into it (line 1541), with no
\* synchronisation between the two threads.
ResizeCallbackRace == g_resizeCallback /\ \E c \in Callers : pc[c] = "R_clear"

\* The SizeChanged handler (lines 821-830) on the UI thread for a new size
\* <<w, h>>: a registered callback is invoked with the bits of the two
\* doubles, then the resize event is enqueued.  Under ResizeCallbackRace the
\* second read can find the null just stored: the call through it ends the
\* process before anything is enqueued.
UISizeChanged(t, w, h) ==

    /\ Alive
    /\ uiState[t] = "running"
    /\ g_window
    /\ closedHandler
    /\ windowBy[t]
    /\ Len(enqLog) < MaxInputs
    /\ \E callsNull \in {FALSE, ResizeCallbackRace} :
         IF callsNull
         THEN /\ proc' = "terminated"
              /\ UNCHANGED <<cbLog, enqLog, ringVars>>
         ELSE /\ cbLog' = IF g_resizeCallback
                          THEN Append(cbLog, [from |-> "SizeChanged",
                                              a |-> DoubleBits(w),
                                              b |-> DoubleBits(h)])
                          ELSE cbLog
              /\ enqLog' = Append(enqLog, WinUIEventInternal(3, 0, 0, 0, 0, 0, w, h))
              /\ RingPush(WinUIEventInternal(3, 0, 0, 0, 0, 0, w, h))
              /\ UNCHANGED proc
    /\ UNCHANGED <<globalVars, staticVars, threadVars, callerVars, ghostVars,
                   windowSide, cmdVars, regVars, callbackVars, released,
                   teardownLog, waitRet, wdArmedFor, enqVars, pollVars, lastOut, lastMore,
                   lastMax, lastOp, polls, delivered, batch, batchClean,
                   batchOvf, lastBatch, lastClean, lastOvf>>

(***************************************************************************)
(* SpecResize: one thread calls InitUI, another one registers and clears   *)
(* the resize callback, the window is created and resized.                 *)
(***************************************************************************)
\* The new sizes of the window, in quarters of a unit: 0 x 0, 800 x 600,
\* 1025.25 x 0.5.
SizeArgs == {<<0, 0>>, <<3200, 2400>>, <<4101, 2>>}

NextResize ==
    \/ InitUIStep("c1")
    \/ \E cb \in BOOLEAN : register_resize_callback("c2", cb)
    \/ RegisterResizeStore("c2")
    \/ \E t \in Threads : LaunchStep(t) \/ UIAttemptCreateMainWindow(t)
    \/ \E t \in Threads : \E a \in SizeArgs : UISizeChanged(t, a[1], a[2])
    \/ TimerStep

InitResize == RingInit /\ LifeInitFor(MaxResizeCalls, 0)

SpecResize == InitResize /\ [][NextResize]_vars

\* What the handler does for a size-changed signal <<w, h>>: exactly one
\* event, a resize event with w and h, is enqueued; a registered callback is
\* invoked once with words that read back as w and h; no callback is invoked
\* when none is registered.
SizeChangedEffect(w, h) ==
    /\ enqLog' = Append(enqLog, WinUIEventInternal(3, 0, 0, 0, 0, 0, w, h))
    /\ g_eventRing'[g_eventHead] = WinUIEventInternal(3, 0, 0, 0, 0, 0, w, h)
    /\ g_eventHead' = (g_eventHead + 1) % kEventRingSize
    /\ IF g_resizeCallback
       THEN /\ Len(cbLog') = Len(cbLog) + 1
            /\ BitsToDouble(cbLog'[Len(cbLog')].a) = w
            /\ BitsToDouble(cbLog'[Len(cbLog')].b) = h
       ELSE cbLog' = cbLog

\* C27: every size-changed signal invokes the registered resize callback,
\* when one is registered, with the new width and height, and enqueues
\* exactly one resize event carrying the same width and height.
C27_SizeChangedSignal ==
    [][\A t \in Threads : \A a \in SizeArgs :
          UISizeChanged(t, a[1], a[2]) => SizeChangedEffect(a[1], a[2])]_vars

(***************************************************************************)
(* SpecInput: one thread calls InitUI, another one registers and clears    *)
(* the input callback, the window is created and receives key and pointer  *)
(* input.                                                                  *)
(***************************************************************************)
\* The keys (the largest virtual key code), the sets of modifier keys held,
\* the buttons (none, the second extended one) and the positions of the
\* pointer (one left of the window and beyond 16 bits, one inside).
KeyArgs == {255}
ModArgs == {{}, {"VK_LSHIFT", "VK_RWIN"}}
ButtonArgs == {0, 5}
PointArgs == {<<-1, 70000>>, <<640, 480>>}

UIInputStep(t) ==
    /\ Len(enqLog) < MaxInputEvents
    /\ \E down \in ModArgs :
         \/ \E action \in {1, 2} : \E vk \in KeyArgs : UIKeyEvent(t, action, vk, down)
         \/ \E button \in ButtonArgs : \E p \in PointArgs :
              UIPointerPressed(t, button, down, p[1], p[2])
         \/ \E p \in PointArgs : UIPointerReleased(t, down, p[1], p[2])

NextInput ==
    \/ InitUIStep("c1")
    \/ \E cb \in BOOLEAN : register_input_callback("c2", cb)
    \/ RegisterInputStore("c2")
    \/ \E t \in Threads : LaunchStep(t) \/ UIAttemptCreateMainWindow(t)
    \/ \E t \in Threads : UIInputStep(t)
    \/ TimerStep

InitInput == RingInit /\ LifeInitFor(MaxInputCalls, 0)

SpecInput == InitInput /\ [][NextInput]_vars

\* The step is an invocation of the input callback.
InputCallbackInvoked ==
    /\ Len(cbLog') = Len(cbLog) + 1
    /\ cbLog'[Len(cbLog')].from = "input"

\* The arguments cb of an invocation unpack to the values of the event ev.
UnpacksTo(cb, ev) ==
    /\ cb.kind = ev.kind
    /\ cb.action = ev.action
    /\ UnpackCode(cb.codeWithMods) = ev.code
    /\ UnpackMods(cb.codeWithMods) = ev.mods
    /\ UnpackX(cb.packedXY) = ev.x
    /\ UnpackY(cb.packedXY) = ev.y
    /\ cb.kind = 1 => (cb.packedXY = ZeroXY /\ ev.x = 0 /\ ev.y = 0)

FastPathFrame ==
    UNCHANGED <<proc, g_shutdownRequested, g_closeCallback, g_uiThread,
                g_appThreadStarted, g_appReady, g_dispatcherQueue,
                g_windowCreationScheduled, g_window, g_windowReady, staticVars,
                threadVars, joinTarget, windowSide, cmdVars, regVars,
                callbackVars, ringVars, enqLog, teardownRuns, joined,
                closeCbInvocations>>

\* C31: a ShutdownUI call made after teardown has finished returns at once
\* and changes no lifecycle state (flags, window, control registry, UI
\* thread handle, event ring) other than the last result.
C31_FastPathChangesNothing ==
    [][\A c \in AllCallers :
          (finished /\ ShutdownEnter(c))
             => /\ pc'[c] = "idle"
                /\ lastCall'[c] = "ShutdownUI"
                /\ g_lastHRESULT' = "S_OK"
                /\ FastPathFrame]_vars

\* The only calling thread has returned from a ShutdownUI call that was not
\* the first one, after an InitUI and a full ShutdownUI.
C31_Witness ==
    /\ finished
    /\ calls = 3
    /\ pc["c1"] = "idle"
    /\ lastCall["c1"] = "ShutdownUI"
    /\ ~firstCall["c1"]
    /\ joined[1]

(***************************************************************************)
(* SpecText: one thread calls InitUI, two threads create panels and text   *)
(* inputs under every kind of parent handle.                               *)
(***************************************************************************)
TextCallerStep(c) ==
    \/ create_stack_panel(c)
    \/ ContainerReturn(c)
    \/ \E parent \in HandleArgs : create_text_input(c, parent)
    \/ TextInputReturn(c)

NextText ==
    \/ InitUIStep("c1")
    \/ \E c \in Callers : TextCallerStep(c)
    \/ \E t \in Threads : LaunchStep(t) \/ UIAttemptCreateMainWindow(t)
    \/ \E t \in Threads : UICreateContainer(t) \/ UICreateTextInput(t)
    \/ TimerStep

InitText == RingInit /\ LifeInitFor(MaxTextCalls, 0)

SpecText == InitText /\ [][NextText]_vars

\* The result codes that report a failure.
FailureCodes == {"E_FAIL", "E_INVALIDARG"}

\* The call or the closure has failed for the caller c: c is handed the null
\* handle, a failure code is recorded and the registry is left as it was.
TextInputFailed(c) ==
    /\ cmdResult'[c] = "null"
    /\ g_lastHRESULT' \in FailureCodes
    /\ UNCHANGED regVars

\* The closure has succeeded for the caller c: c is handed a handle that is
\* new in the registry.
TextInputCreated(c) ==
    /\ cmdResult'[c] = "handle"
    /\ g_lastHRESULT' = "S_OK"
    /\ \E h \in Handles \ g_controls : g_controls' = g_controls \cup {h}

\* C32: when create_text_input fails, for a null parent, a parent that is not
\* in the control registry, a parent of unsupported type or an exception in
\* the closure on the UI thread, it returns the null handle, records a
\* failure code and adds no entry to the control registry.
C32_TextInputFailure ==
    [][/\ \A c \in Callers :
             create_text_input(c, 0) => (TextInputFailed(c) /\ pc'[c] = "idle")
       /\ \A t \in Threads :
             UICreateTextInput(t) =>
                LET parent == Head(queue[t]).parent
                    caller == Head(queue[t]).caller
                IN /\ promise'[caller] = "set"
                   /\ TextInputFailed(caller) \/ TextInputCreated(caller)
                   /\ (parent \notin g_controls \/ ctlKind[parent] /= "panel")
                         => TextInputFailed(caller)
       /\ \A c \in Callers :
             TextInputReturn(c) => (pc'[c] = "idle" /\ cmdResult'[c] = cmdResult[c])]_vars

\* After InitUI and a create_stack_panel, two create_text_input calls have
\* returned; the one of c2 was handed null, the last result is E_FAIL and
\* the registry holds the window and the panel only.
C32_Witness ==
    /\ calls = 4
    /\ g_controls = {WindowHandle, WindowHandle + 1}
    /\ \A c \in Callers : pc[c] = "idle"
    /\ cmdResult["c2"] = "null"
    /\ g_lastHRESULT = "E_FAIL"
    /\ nextCtl = 1

(***************************************************************************)
(* SpecClosed: InitUI and ShutdownUI calls of one host thread, the window  *)
(* created, the Closed signal more than once, and the helper thread the    *)
(* handler starts.                                                         *)
(***************************************************************************)
NextClosed ==
    \/ \E c \in {"c1", Helper} : CoreCallerStep(c)
    \/ \E t \in Threads : CoreUIStep(t) \/ UIAttemptCreateMainWindow(t)
    \/ \E t \in Threads : closedEvents < MaxClosedSignals /\ ClosedHandler(t)
    \/ TimerStep
    \/ WatchdogStep

InitClosed == RingInit /\ LifeInitFor(MaxClosedCalls, 0)

SpecClosed == InitClosed /\ [][NextClosed]_vars

\* The helper thread is started by this step.
HelperStarted == pc[Helper] /= "spawned" /\ pc'[Helper] = "spawned"

\* C33: the Closed handler enqueues the window_closed event before the
\* shutdown it starts begins; the helper thread that calls ShutdownUI is
\* started at most once however often the signal fires; and the handler
\* leaves the UI thread running: only a calling thread or the helper ever
\* joins the UI thread.
C33_ClosedStartsShutdownOnce ==
    [][/\ \A t \in Threads :
             ClosedHandler(t) =>
                /\ g_eventRing'[g_eventHead] = WinUIEventInternal(4, 0, 0, 0, 0, 0, 0, 0)
                /\ g_eventHead' = (g_eventHead + 1) % kEventRingSize
                /\ pc'[Helper] \in {pc[Helper], "spawned"}
                /\ UNCHANGED <<uiState, joinTarget, g_shutdownRequested, g_uiThread>>
       /\ HelperStarted => (~launched /\ \E t \in Threads : ClosedHandler(t))
       /\ launched => launched'
       /\ ShutdownEnter(Helper) => (launched /\ closedEvents > 0)
       /\ \A c \in AllCallers : joinTarget'[c] /= joinTarget[c] =>
             (ShutdownJoinBegin(c) \/ ShutdownJoinEnd(c))]_vars

\* The Closed signal has fired twice, the second time after the helper
\* thread had entered ShutdownUI, and the helper was not started again.
C33_Witness ==
    /\ closedEvents = 2
    /\ launched
    /\ pc[Helper] \notin {"idle", "spawned"}
    /\ g_shutdownRequested

\* No enqueue and no drain is in progress.
RingQuiescent == epc = "idle" /\ qpc = "idle"

\* C34: after any sequence of enqueue and drain operations that do not
\* overlap, the number of events enqueued equals the number delivered by
\* drains plus the number unread in the ring plus the overflow counter.
C34_EventsAccountedFor ==
    RingQuiescent =>
        Len(enqLog) = Len(delivered) + Unread + g_eventOverflow

\* Events were dropped, some were delivered and some are still unread.
C34_Witness ==
    /\ RingQuiescent
    /\ g_eventOverflow = 2
    /\ Len(delivered) = 1
    /\ Unread = 3
    /\ Len(enqLog) = 6

\* C35: the watchdog ends the process only if the UI thread of the shutdown
\* cycle that started it has not been joined; once that join has completed
\* the watchdog never ends the process, also when InitUI starts a new UI
\* thread between two of its polls.
C35_WatchdogOnlyForUnjoinedThread ==
    [][WatchdogTimeout => (wdArmedFor > 0 /\ ~joined[wdArmedFor])]_vars

\* The threads blocked in g_uiThread.join() (line 1179), and the threads in
\* the cleanup and flag reset that follow the join (lines 1196-1384).
Joiners == {c \in AllCallers : pc[c] = "S_1179"}
PostJoin == {c \in AllCallers : pc[c] \in {"S_1196", "S_1377", "S_1384"}}

\* C36: at most one thread at a time executes join on the UI thread handle,
\* and the post-join cleanup and flag reset are run by at most one caller
\* of a shutdown cycle, also when a repeat ShutdownUI caller arrives before
\* the first caller has finished.
C36_OneJoinerOneCleanup ==
    /\ Cardinality(Joiners) <= 1
    /\ Cardinality(Joiners \cup PostJoin) <= 1

\* C37: a background colour passed to set_window_background_color before
\* shutdown is requested is not lost: a colour the call stored as pending
\* because it found no window is on the window once the window is created,
\* for every interleaving of the call with the window-creation attempt.
C37_BackgroundNotLost ==
    (g_pendingBGSet /\ g_window /\ g_windowReady /\ ~g_shutdownRequested
        /\ \A c \in Callers : pc[c] /= "B_1590")
      => winBG

\* The run of AttemptCreateMainWindow just made has failed: it recorded a
\* failure code.
AttemptFailed ==
    /\ Len(attemptLog') = Len(attemptLog) + 1
    /\ attemptLog'[Len(attemptLog')].hr \notin {"S_OK", "none"}

\* C38: after a window-creation attempt has failed, with the transient or
\* with a terminal error, no window exists (window_exists reports absence),
\* so that a scheduled retry runs the creation again instead of returning at
\* once because a window object is present.
C38_NoWindowAfterFailedAttempt ==
    [][AttemptFailed => ~g_window']_vars


(***************************************************************************)
(* The readiness of the window (lines 711-839, 1419-1439).  The host        *)
(* threads read g_windowReady while the UI thread is inside                 *)
(* AttemptCreateMainWindow, so the function is taken here in the two parts  *)
(* the flag separates: up to notify_all (line 722), and from there on.      *)
(***************************************************************************)
\* The UI thread stands behind g_windowReadyCv.notify_all() (line 722).
AfterNotify == "A_724"

\* AttemptCreateMainWindow from its entry to line 722, when nothing up to
\* there throws: the window is made, given its title and its size, the
\* window_created event is enqueued (line 713), g_windowReady is set under
\* g_windowReadyMutex (lines 718-720) and the waiters are notified.
AttemptCreateMakeReady(t) ==

    /\ NextWork(t, "create")
    /\ ~g_window
    /\ g_window' = TRUE
    /\ winTitle' = InitialTitle
    /\ winW' = InitialSize[1]
    /\ winH' = InitialSize[2]
    /\ winBG' = FALSE
    /\ RingPush(WinUIEventInternal(5, 0, 0, 0, 0, 0, 0, 0))
    /\ g_windowReady' = TRUE
    /\ pc' = NotifyAll
    /\ windowBy' = [windowBy EXCEPT ![t] = TRUE]
    /\ uiState' = [uiState EXCEPT ![t] = AfterNotify]
    /\ UNCHANGED <<proc, g_lastHRESULT, g_shutdownRequested, g_closeCallback,
                   g_uiThread, g_appThreadStarted, g_appReady, g_dispatcherQueue,
                   g_windowCreationScheduled, staticVars, queue, nextTid,
                   timers, wd, wdWaited, firstCall, joinTarget, calls,
                   callLimit, lastCall, callThread, callSeg, initResult,
                   initSeen, joined, teardownRuns, closeCbInvocations,
                   cbAtRequest, bootFailed, closedEvents, createFailures,
                   pendingVars, g_minClientW, winHistVars, cmdVars, ctlVars,
                   enqVars, pollVars, histVars>>

\* What the rest of the function can do: end, or throw where the window is
\* converted to a FrameworkElement (line 833), which no handler wraps.
FinishOutcomes ==
    {o \in CreateOutcomes :
        \/ o.kind = "ok"
        \/ o.kind = "hresult_error" /\ o.late /\ o.hr = "E_NOINTERFACE"}

\* AttemptCreateMainWindow from line 724 to its end: the pending background
\* is applied (lines 724-752), the input, Closed and SizeChanged handlers
\* are wired (lines 755-830), the window's handle is put in g_controls
\* (lines 832-833) and S_OK recorded (line 839); a throw at line 833 is
\* recorded by the handlers of lines 841-871 like any other.
AttemptCreateFinishSetup(t) ==

    /\ Alive
    /\ uiState[t] = AfterNotify
    /\ uiState' = [uiState EXCEPT ![t] = "running"]
    /\ queue' = [queue EXCEPT ![t] = Tail(@)]
    /\ winBG' = g_pendingBGSet
    /\ closedHandler' = TRUE
    /\ \E o \in FinishOutcomes :
         /\ o.kind /= "ok" => createFailures < createLimit
         /\ attemptLog' = Append(attemptLog,
                                 [n |-> Head(queue[t]).n, hr |-> o.hr,
                                  givingUp |-> GivingUp(o, Head(queue[t]).n)])
         /\ createFailures' = IF o.kind = "ok" THEN createFailures
                              ELSE createFailures + 1
         /\ g_lastHRESULT' = o.hr
         /\ g_controls' = IF o.kind = "ok"
                          THEN g_controls \cup {WindowHandle}
                          ELSE g_controls
         /\ ctlKind' = IF o.kind = "ok"
                       THEN [ctlKind EXCEPT ![WindowHandle] = "window"]
                       ELSE ctlKind
         /\ timers' = IF CreateRetries(o, Head(queue[t]).n)
                      THEN timers \cup {Head(queue[t]).n + 1}
                      ELSE timers
    /\ UNCHANGED <<proc, g_shutdownRequested, g_closeCallback, g_uiThread,
                   g_appThreadStarted, g_appReady, g_dispatcherQueue,
                   g_windowCreationScheduled, g_window, g_windowReady,
                   finished, watchdogStarted, closeCbFired, launched, nextTid,
                   wd, wdWaited, callerVars, calls, callLimit, lastCall,
                   callThread, callSeg, initResult, initSeen, joined,
                   teardownRuns, closeCbInvocations, cbAtRequest, bootFailed,
                   windowBy, closedEvents, pendingVars, g_minClientW, winTitle,
                   winW, winH, createLimit, cwCall, earlyTitle, cmdVars,
                   parentOf, nextCtl, callbackVars, ctlHistVars, ringSide>>

\* A run of AttemptCreateMainWindow that does not reach line 718: it
\* returns at line 566, or throws before the flag is set.
AttemptCreateNotReady(t) ==
    UIAttemptCreateMainWindow(t) /\ UNCHANGED g_windowReady

\* is_window_ready (lines 1419-1423): the predicate, read under
\* g_windowReadyMutex; waitRet keeps the value returned.
is_window_ready(c) ==

    /\ MayCall(c)
    /\ calls' = calls + 1
    /\ waitRet' = [waitRet EXCEPT ![c] =
                      [timeoutMs |-> 0, deadline |-> 0,
                       ret |-> IF WindowIsReady THEN 1 ELSE 0]]
    /\ UNCHANGED <<proc, globalVars, staticVars, threadVars, callerVars,
                   ghostRest, windowSide, cmdVars, regVars, callbackVars,
                   released, cbLog, teardownLog, wdArmedFor, ringSide>>

(***************************************************************************)
(* SpecReady: one thread sets the background colour and calls InitUI,      *)
(* another one asks for the readiness of the window while the UI thread    *)
(* creates it.                                                             *)
(***************************************************************************)
ReadyCallerStep(c) ==
    \/ is_window_ready(c)
    \/ WaitCallerStep(c)

ReadyUIStep(t) ==
    \/ LaunchStep(t)
    \/ AttemptCreateMakeReady(t)
    \/ AttemptCreateFinishSetup(t)
    \/ AttemptCreateNotReady(t)
    \/ UIApplyBackground(t)

NextReady ==
    \/ InitUIStep("c1")
    \/ set_window_background_color("c1")
    \/ StorePendingBackground("c1")
    \/ ReadyCallerStep("c2")
    \/ \E t \in Threads : ReadyUIStep(t)
    \/ TimerStep

InitReady == RingInit /\ LifeInitFor(MaxReadyCalls, MaxCreateFailures)

SpecReady == InitReady /\ [][NextReady]_vars

\* The step is a readiness query of caller c that reports ready.
ReportsReady(c) ==
    /\ waitRet'[c].ret = 1
    /\ waitRet'[c] /= waitRet[c] \/ pc'[c] /= pc[c]

\* The window_created event is in the ring.
WindowCreatedEnqueued ==
    \E i \in DOMAIN g_eventRing : g_eventRing[i].kind = 5

\* The setup of the window is complete.
SetupComplete ==
    /\ WindowCreatedEnqueued
    /\ WindowHandle \in g_controls
    /\ g_pendingBGSet => winBG
    /\ closedHandler

\* C39: whenever is_window_ready or wait_for_window_ready reports ready, the
\* setup of the window is complete: the window_created event is enqueued,
\* the window's handle is in the registry, the pending background colour is
\* applied and the input, Closed and SizeChanged handlers are wired.
C39_ReadyMeansSetupComplete ==
    [][\A c \in Callers : ReportsReady(c) => SetupComplete']_vars


(***************************************************************************)
(* SpecMouse: one thread calls InitUI, another one registers the input     *)
(* callback, the window is created and the buttons of the mouse are        *)
(* pressed and released over it in any order.                              *)
(***************************************************************************)
\* The left and the right button.
MouseButtons == {1, 2}

UIMouseStep(t) ==
    /\ Len(enqLog) < MaxMouseEvents
    /\ \/ \E button \in MouseButtons \ held :
            UIPointerPressed(t, button, {}, 640, 480)
       \/ held /= {} /\ UIPointerReleased(t, {}, 640, 480)

NextMouse ==
    \/ InitUIStep("c1")
    \/ \E cb \in BOOLEAN : register_input_callback("c2", cb)
    \/ RegisterInputStore("c2")
    \/ \E t \in Threads : LaunchStep(t) \/ UIAttemptCreateMainWindow(t)
    \/ \E t \in Threads : UIMouseStep(t)
    \/ TimerStep

InitMouse == RingInit /\ LifeInitFor(MaxMouseCalls, 0)

SpecMouse == InitMouse /\ [][NextMouse]_vars

\* C40: every mouse-up event carries the button id of the mouse-down it
\* releases, for any sequence of presses and releases, also when several
\* buttons are pressed before any is released: the button reported by the
\* release handler is the button that went up.
C40_MouseUpCarriesButton ==
    \A i \in DOMAIN upLog : upLog[i].carried = upLog[i].released

=============================================================================
